---- MODULE Spec2Model ----
(***************************************************************************)
(* Fleet update orchestrator of bitaxe_updtrr.                             *)
(*                                                                         *)
(* Two drivers are modelled over one set of variables:                     *)
(*   app = "tui": updtrr_tui.py. A worker thread (update_worker) and the   *)
(*                main thread (TUIRenderer.run, then main_tui, then exit). *)
(*   app = "cli": updtrr.py. update_all_devices, called either by main     *)
(*                (patched = TRUE: main has rebound updater.update_device) *)
(*                or directly on a BitaxeUpdater (patched = FALSE).        *)
(*                                                                         *)
(* The event queue is unbounded and the worker never reads it, so the      *)
(* driver specification Spec records the event most recently put           *)
(* (last_event) and two counters about the COMPLETE event. The sequence of *)
(* the events put is part of the state under view = "emit" (EmitSpec) and  *)
(* view = "queue" (EventSpec); under the latter so are the contents of the *)
(* queue and the renderer's log, and process_events runs in the main       *)
(* thread's loop. Under view = "draw" (RenderSpec) the main thread draws   *)
(* the device rows step by step. Under view = "main" (MainSpec) the run    *)
(* begins at main, with the validation of the files. Under view = "call"   *)
(* (VersionSpec, VerifySpec, ScanSpec) one function is applied to drawn    *)
(* arguments. LogSpec is the "queue" view of the run that fills the log    *)
(* past its limit, QuietSpec the TUI run without key presses, with the     *)
(* fairness of its two threads.                                            *)
(***************************************************************************)
EXTENDS Integers, Sequences, FiniteSets, TLC

\* ---------------------------------------------------------------- bounds
MaxDevices == 2

\* ------------------------------------------------------------- constants
ProgressSteps == 20
StepPercent == 5
DefaultUploadDelay == 5
DefaultDeviceDelay == 10
\* verify_bitaxe_device: the indicators a device must expose, and the number
\* that is enough without a known ASIC model
MinIndicators == 3
HighConfidence == 4
\* process_events: the log is cut to its last LogKeep messages when it
\* holds more than LogLimit
LogLimit == 100
LogKeep == 50

Addrs == {"10.0.0.1", "10.0.0.2"}

FirstAddr == "10.0.0.1"

\* the address lists, up to the renaming of addresses: the first entry is fixed
AddressLists ==
    {l \in UNION {[1..n -> Addrs] : n \in 1..MaxDevices} : l[1] = FirstAddr}

\* Python's None where a version string (or dict) is expected
NoneV == <<"<None>">>

\* DeviceStatus
PENDING == "PENDING"
CHECKING_VERSION == "CHECKING_VERSION"
UP_TO_DATE == "UP_TO_DATE"
WWW_UPLOADING == "WWW_UPLOADING"
WWW_SUCCESS == "WWW_SUCCESS"
WWW_FAILED == "WWW_FAILED"
FW_UPLOADING == "FW_UPLOADING"
FW_SUCCESS == "FW_SUCCESS"
FW_FAILED == "FW_FAILED"
COMPLETED == "COMPLETED"
FAILED == "FAILED"

DeviceStatus ==
    {PENDING, CHECKING_VERSION, UP_TO_DATE, WWW_UPLOADING, WWW_SUCCESS,
     WWW_FAILED, FW_UPLOADING, FW_SUCCESS, FW_FAILED, COMPLETED, FAILED}

\* ------------------------------------------------------- version strings
\* A version string is a sequence of one-character strings.
Digits == {"0", "1", "2", "3", "4", "5", "6", "7", "8", "9"}

DigitVal ==
    [c \in Digits |->
        CASE c = "0" -> 0 [] c = "1" -> 1 [] c = "2" -> 2 [] c = "3" -> 3
          [] c = "4" -> 4 [] c = "5" -> 5 [] c = "6" -> 6 [] c = "7" -> 7
          [] c = "8" -> 8 [] c = "9" -> 9]

Whitespace == {" "}

RECURSIVE lstrip(_)
lstrip(s) ==
    IF s # <<>> /\ Head(s) \in Whitespace THEN lstrip(Tail(s)) ELSE s

RECURSIVE rstrip(_)
rstrip(s) ==
    IF s # <<>> /\ s[Len(s)] \in Whitespace
    THEN rstrip(SubSeq(s, 1, Len(s) - 1))
    ELSE s

strip(s) == rstrip(lstrip(s))

strip_v_prefix_AnyFirst(s) == IF s # <<>> THEN Tail(s) ELSE s

\* re.sub(r'^v', '', s)
strip_v_prefix(s) == IF s # <<>> /\ Head(s) = "v" THEN Tail(s) ELSE s

\* re.findall(r'\d+', s), each run converted by int()
RECURSIVE digit_runs(_, _, _)
digit_runs(s, cur, inrun) ==
    IF s = <<>> THEN (IF inrun THEN <<cur>> ELSE <<>>)
    ELSE IF Head(s) \in Digits
         THEN digit_runs(Tail(s),
                         (IF inrun THEN cur * 10 ELSE 0) + DigitVal[Head(s)],
                         TRUE)
         ELSE (IF inrun THEN <<cur>> ELSE <<>>) \o digit_runs(Tail(s), 0, FALSE)

parse_version_Shifts(version_str) ==
    LET parts == digit_runs(strip_v_prefix(strip(version_str)), 0, FALSE)
    IN  IF Len(parts) >= 3 THEN <<parts[1], parts[2], parts[3]>>
        ELSE IF Len(parts) = 2 THEN <<0, parts[1], parts[2]>>
        ELSE IF Len(parts) = 1 THEN <<0, 0, parts[1]>>
        ELSE <<0, 0, 0>>

\* compare_versions.parse_version
parse_version(version_str) ==
    LET parts == digit_runs(strip_v_prefix(strip(version_str)), 0, FALSE)
    IN  IF Len(parts) >= 3 THEN <<parts[1], parts[2], parts[3]>>
        ELSE IF Len(parts) = 2 THEN <<parts[1], parts[2], 0>>
        ELSE IF Len(parts) = 1 THEN <<parts[1], 0, 0>>
        ELSE <<0, 0, 0>>

TupleGreater_OrEqual(a, b) ==
    \/ a[1] > b[1]
    \/ a[1] = b[1] /\ a[2] > b[2]
    \/ a[1] = b[1] /\ a[2] = b[2] /\ a[3] >= b[3]

\* Python's tuple order on triples
TupleGreater(a, b) ==
    \/ a[1] > b[1]
    \/ a[1] = b[1] /\ a[2] > b[2]
    \/ a[1] = b[1] /\ a[2] = b[2] /\ a[3] > b[3]

\* A JSON version value that is not a string: .strip() raises inside the
\* try block of compare_versions.
NonString == <<"<non-string>">>

compare_versions(current_version, binary_version) ==
    IF current_version = NonString \/ binary_version = NonString
    THEN TRUE
    ELSE TupleGreater(parse_version(binary_version), parse_version(current_version))

V_2_9_0 == <<"2", ".", "9", ".", "0">>
V_2_9_1 == <<"2", ".", "9", ".", "1">>
V_v2_10_0 == <<"v", "2", ".", "1", "0", ".", "0">>
V_unknown == <<"u", "n", "k", "n", "o", "w", "n">>

\* values of the 'version' field a device may report
DeviceVersions == {V_2_9_0, V_v2_10_0, V_unknown, NonString}
\* results of extract_version_from_binary on the firmware file, which is read
\* from disk at every version check
BinaryVersions == {NoneV, V_2_9_1}

check_if_update_needed_FailClosed(device_info, binver) ==
    IF device_info = NoneV \/ binver = NoneV THEN FALSE
    ELSE compare_versions(device_info, binver)

\* check_if_update_needed, given the result of get_device_version
\* (NoneV or the reported version) and of extract_version_from_binary
check_if_update_needed(device_info, binver) ==
    IF device_info = NoneV THEN TRUE
    ELSE IF binver = NoneV THEN TRUE
    ELSE compare_versions(device_info, binver)

\* check_if_update_needed: the status message returned with the decision
\* (without the versions formatted into it)
status_msg(device_info, binver) ==
    IF device_info = NoneV
    THEN "Unable to get device version - proceeding with update"
    ELSE IF binver = NoneV
    THEN "Unable to extract binary version - proceeding with update"
    ELSE IF compare_versions(device_info, binver) THEN "Update needed"
    ELSE "Already up to date"

\* ------------------------------------------------------------- variables
VARIABLES
    app, patched, ip_addresses, force, upload_delay, device_delay, file_size,
    w_pc, i, is_running, current_device, devices, device_progress, stats,
    upload_type, step, success, www_success, firmware_success,
    inflight, visit, started, last_event, n_complete, n_after_complete,
    r_pc, completion_time, alive, cancelled, results,
    view, emitted, event_queue, log_messages, appended,
    detached, r_status, r_ref, r_read,
    args, m_pc, exit_status, scanned, call, retval

\* main of either program (the command line, the position of main, the exit
\* status, whether the network scan has begun) and the call of a function
\* taken alone with its result
entry == <<args, m_pc, exit_status, scanned, call, retval>>
inputs == <<app, patched, ip_addresses, force, upload_delay, device_delay,
            file_size, view, entry>>
worker == <<w_pc, i, current_device, devices, device_progress, detached, stats,
            upload_type, step, success, www_success, firmware_success,
            inflight, visit, started, results>>
events == <<last_event, n_complete, n_after_complete, emitted, event_queue>>
\* log_messages, and the events appended to it so far
logs == <<log_messages, appended>>
\* draw_devices: the locals of the frame being drawn (r_ref: the upload type
\* of the ProgressInfo object bound to "progress", r_read: the attributes
\* read from it so far)
drawn == <<r_status, r_ref, r_read>>
mainthread == <<r_pc, completion_time, alive, cancelled, logs, drawn>>

vars == <<inputs, worker, events, mainthread, is_running>>

\* ------------------------------------------------------- records, helpers
UploadTypes == {"WWW", "FW"}
FileSizes == {250}

Endpoint(t) == IF t = "WWW" THEN "OTAWWW" ELSE "OTA"

Range(f) == {f[k] : k \in DOMAIN f}

\* ProgressInfo.__init__
ProgressInfo(t, bytes_sent, total_bytes) ==
    [upload_type |-> t, bytes_sent |-> bytes_sent, total_bytes |-> total_bytes,
     percentage |-> IF total_bytes = 0 THEN 0 ELSE (bytes_sent * 100) \div total_bytes]

\* ProgressInfo.update
ProgressUpdate(p, bytes_sent) ==
    [p EXCEPT !.bytes_sent = bytes_sent,
              !.percentage = IF p.total_bytes = 0 THEN 0
                             ELSE (bytes_sent * 100) \div p.total_bytes]

\* no entry for the address in device_progress
NoProgress == [upload_type |-> "None", bytes_sent |-> 0, total_bytes |-> 0,
               percentage |-> 0]

\* The ProgressInfo objects that are no longer in device_progress but may
\* still be referenced by the renderer: the entry of address a is about to be
\* replaced or deleted (one object per upload type in a visit)
Detach(a) ==
    IF view = "draw" /\ device_progress[a] # NoProgress
    THEN [detached EXCEPT ![device_progress[a].upload_type] = device_progress[a]]
    ELSE detached

\* UpdateEvent (the timestamp is not modelled); n is the number formatted
\* into the message, 0 when there is none
UpdateEvent(event_type, device_ip, message, n) ==
    [event_type |-> event_type, device_ip |-> device_ip, message |-> message,
     n |-> n]

NoEvent == UpdateEvent("None", "", "", 0)

\* Queue.put, for the items put by one step, in order
QueuePut(q, items) == q \o items

\* add_event, for the events evs put by one step, in order; id numbers the
\* UpdateEvent objects in the order of their creation
add_events(evs) ==
    LET isComplete(k) == evs[k].event_type = "COMPLETE"
        completes == {k \in 1..Len(evs) : isComplete(k)}
        after == {k \in 1..Len(evs) :
                    n_complete > 0 \/ \E j \in completes : j < k}
        queued == [k \in 1..Len(evs) |-> [id |-> Len(emitted) + k, event |-> evs[k]]]
    IN  /\ last_event' = evs[Len(evs)]
        /\ n_complete' = n_complete + Cardinality(completes)
        /\ n_after_complete' = n_after_complete + Cardinality(after)
        /\ emitted' = IF view \in {"emit", "queue"} THEN emitted \o evs ELSE emitted
        /\ event_queue' = IF view = "queue" THEN QueuePut(event_queue, queued)
                          ELSE event_queue

\* facts about the device visit in progress, reset when a visit begins
\* (stats0: the statistics when it began)
NewVisit(ip) ==
    [ip |-> ip, calls |-> <<>>, checked |-> "no",
     stats0 |-> stats, www_done |-> FALSE,
     slept |-> FALSE, fw_started |-> FALSE, fw_done |-> FALSE,
     posted |-> FALSE, outcome |-> "none", cancel_step |-> 0,
     cancel_pc |-> "none", returned |-> "no"]

NoVisit == NewVisit("")

Issue_Twice(ip, endpoint, v) ==
    /\ inflight' = inflight \cup {[ip |-> ip, endpoint |-> endpoint, visit |-> i]}
    /\ visit' = [v EXCEPT !.calls = @ \o <<endpoint, endpoint>>,
                          !.posted = (endpoint # "GET") \/ @]

\* session.get / session.post: the request is on the wire (v: the facts of
\* the visit before the call)
Issue(ip, endpoint, v) ==
    /\ inflight' = inflight \cup {[ip |-> ip, endpoint |-> endpoint, visit |-> i]}
    /\ visit' = [v EXCEPT !.calls = Append(@, endpoint),
                          !.posted = (endpoint # "GET") \/ @]

\* outcomes of GET /api/system/info as get_device_version distinguishes them
GetOutcomes == {"ok", "http_error", "request_exception", "bad_body"}
PostOutcomes_AbortOnCancel ==
    IF cancelled THEN {"none"}
    ELSE {"200", "http_error", "timeout", "connection_error", "other"}

\* outcomes of a POST as upload_with_progress distinguishes them
PostOutcomes == {"200", "http_error", "timeout", "connection_error", "other"}

ThreadAlive == w_pc \notin {"w_done", "crashed"}

\* ------------------------------------------------------------------ Init
InitStats(n) ==
    [total |-> n, completed |-> 0, www_success |-> 0, fw_success |-> 0,
     failed |-> 0]

InitResults(n) ==
    [total |-> n, firmware_success |-> 0, www_success |-> 0, both_success |-> 0,
     failed |-> <<>>, up_to_date |-> 0]

InitCommon ==
    /\ ip_addresses \in AddressLists
    /\ force \in BOOLEAN
    /\ upload_delay \in {0, DefaultUploadDelay}
    /\ device_delay \in {0, DefaultDeviceDelay}
    /\ file_size \in [UploadTypes -> FileSizes]
    /\ i = 0
    /\ current_device = 0
    /\ device_progress = [a \in Addrs |-> NoProgress]
    /\ upload_type = "None"
    /\ step = 0
    /\ success = FALSE
    /\ www_success = FALSE
    /\ firmware_success = FALSE
    /\ inflight = {}
    /\ started = <<>>
    /\ last_event = NoEvent
    /\ n_complete = 0
    /\ n_after_complete = 0
    /\ completion_time = "None"
    /\ alive = TRUE
    /\ cancelled = FALSE
    /\ is_running = FALSE
    /\ emitted = <<>>
    /\ event_queue = <<>>
    /\ log_messages = <<>>
    /\ appended = <<>>
    /\ detached = [t \in UploadTypes |-> NoProgress]
    /\ r_status = "None"
    /\ r_ref = "None"
    /\ r_read = NoProgress

\* main is not part of the run, and no function is called alone
NoArgs == [esp_miner_bin |-> "ok", www_bin |-> "ok", check_versions |-> FALSE,
           discover |-> FALSE]
NoCall == [fn |-> "none"]
\* the call has not returned (a returned value x is <<x>>)
NoReturn == <<>>
\* the process has not exited
NoStatus == <<>>

NoEntry ==
    /\ args = NoArgs
    /\ m_pc = "none"
    /\ exit_status = NoStatus
    /\ scanned = FALSE
    /\ call = NoCall
    /\ retval = NoReturn

\* TUIRenderer.run has filled devices and stats.total and started the thread
InitWorker ==
    /\ app = "tui"
    /\ NoEntry
    /\ patched = FALSE
    /\ InitCommon
    /\ w_pc = "w_start"
    /\ devices = [a \in Addrs |->
                    IF a \in Range(ip_addresses) THEN PENDING ELSE "ABSENT"]
    /\ stats = InitStats(Len(ip_addresses))
    /\ results = InitResults(0)
    /\ visit = NoVisit

InitTUI ==
    /\ InitWorker
    /\ view = "none"
    /\ r_pc = "getch"

\* updtrr.py: update_all_devices is entered; patched tells whether main has
\* rebound updater.update_device to update_device_with_delay
InitCLI ==
    /\ app = "cli"
    /\ NoEntry
    /\ patched \in BOOLEAN
    /\ InitCommon
    /\ view = "none"
    /\ w_pc = "c_loop"
    /\ r_pc = "none"
    /\ devices = [a \in Addrs |-> "ABSENT"]
    /\ stats = InitStats(0)
    /\ results = InitResults(Len(ip_addresses))
    /\ visit = NoVisit

Init == InitTUI \/ InitCLI

\* ------------------------------------------------- TUI: update_worker
Ip == ip_addresses[i]

\* update_worker, first statements
W_Start ==
    /\ app = "tui" /\ alive /\ w_pc = "w_start"
    /\ is_running' = TRUE
    /\ w_pc' = "w_loop"
    /\ UNCHANGED <<inputs, events, mainthread, i, current_device, devices,
                   device_progress, detached, stats, upload_type, step, success,
                   www_success, firmware_success, inflight, visit, started,
                   results>>

\* update_worker, loop head: next address, or the end of the loop
W_Loop ==
    /\ app = "tui" /\ alive /\ w_pc = "w_loop"
    /\ IF i = Len(ip_addresses) \/ ~is_running
       THEN w_pc' = "w_end" /\ i' = i
       ELSE w_pc' = "w_begin" /\ i' = i + 1
    /\ UNCHANGED <<inputs, events, mainthread, is_running, current_device,
                   devices, device_progress, detached, stats, upload_type, step, success,
                   www_success, firmware_success, inflight, visit, started,
                   results>>

\* update_worker, loop body up to the call of update_device and its first event
W_Begin ==
    /\ app = "tui" /\ alive /\ w_pc = "w_begin"
    /\ current_device' = i
    /\ devices' = [devices EXCEPT ![Ip] = PENDING]
    /\ add_events(<<UpdateEvent("PROGRESS", Ip, "Starting device", i),
                    UpdateEvent("DEVICE_START", Ip, "Starting device update...", 0)>>)
    /\ started' = Append(started, Ip)
    /\ visit' = NewVisit(Ip)
    /\ www_success' = FALSE
    /\ firmware_success' = FALSE
    /\ w_pc' = "ud_check"
    /\ UNCHANGED <<inputs, mainthread, is_running, i, device_progress, detached, stats,
                   upload_type, step, success, inflight, results>>

\* ------------------------------------------------- TUI: update_device
Bump_Completed(st, field) == [st EXCEPT !.completed = @ + 1]

Bump_Twice(st, field) == [st EXCEPT ![field] = @ + 2]

\* self.stats[field] += 1
Bump(st, field) == [st EXCEPT ![field] = @ + 1]

ChecksVersion_Always(f) == TRUE

\* update_device: "if not force"
ChecksVersion(f) == ~f

SkipsDevice_Never(update_needed) == FALSE

\* update_device: "if not update_needed", the device is skipped
SkipsDevice(update_needed) == ~update_needed

SleepsBetweenStages_Always(www, delay) == delay > 0

\* update_device: "if www_success and delay > 0"
SleepsBetweenStages(www, delay) == www /\ delay > 0

FinalStatus_AnySuccess(www, fw) == IF www \/ fw THEN COMPLETED ELSE FAILED

FinalStatus_WwwDecides(www, fw) == IF www THEN COMPLETED ELSE FAILED

FinalStatus_KeepsStage(www, fw) ==
    IF www /\ fw THEN COMPLETED ELSE IF fw THEN FAILED ELSE FW_FAILED

\* update_device: the final status
FinalStatus(www, fw) == IF www /\ fw THEN COMPLETED ELSE FAILED

UploadSucceeded_WhileRunning(o) == o = "200" /\ ~cancelled

\* upload_with_progress: "if response.status_code == 200"
UploadSucceeded(o) == o = "200"

\* the delay parameter of update_device: update_worker passes upload_delay,
\* update_all_devices leaves the default
Delay == IF app = "tui" THEN upload_delay ELSE DefaultUploadDelay

\* update_device: the force test, then check_if_update_needed up to the GET
UD_Check ==
    /\ app = "tui" /\ alive /\ w_pc = "ud_check"
    /\ IF ~ChecksVersion(force)
       THEN /\ w_pc' = "www_start"
            /\ UNCHANGED <<devices, events, inflight, visit>>
       ELSE /\ devices' = [devices EXCEPT ![Ip] = CHECKING_VERSION]
            /\ add_events(<<UpdateEvent("VERSION_CHECK", Ip,
                                        "Checking device version...", 0)>>)
            /\ Issue(Ip, "GET", visit)
            /\ w_pc' = "gv_wait"
    /\ UNCHANGED <<inputs, mainthread, is_running, i, current_device,
                   device_progress, detached, stats, upload_type, step, success,
                   www_success, firmware_success, started, results>>

\* get_device_version from the response on, the rest of
\* check_if_update_needed, and update_device up to the upload or the return
GV_Reply ==
    /\ app = "tui" /\ alive /\ w_pc = "gv_wait"
    /\ \E o \in GetOutcomes, v \in DeviceVersions, binary_version \in BinaryVersions :
        /\ inflight' = {}
        /\ IF o = "bad_body"
           THEN \* response.json() or info.get raises something that is not a
                \* RequestException: nothing up to update_worker catches it
                /\ w_pc' = "crashed"
                /\ visit' = [visit EXCEPT !.outcome = o]
                /\ UNCHANGED <<devices, stats, www_success, firmware_success,
                               events>>
           ELSE LET device_info == IF o = "ok" THEN v ELSE NoneV
                    needed == check_if_update_needed(device_info, binary_version)
                    err == IF o = "ok" THEN <<>>
                           ELSE <<UpdateEvent("ERROR", Ip,
                                              "Failed to get version info", 0)>>
                    msg == UpdateEvent("VERSION_CHECK", Ip,
                                       status_msg(device_info, binary_version), 0)
                IN  /\ visit' = [visit EXCEPT
                                   !.outcome = o,
                                   !.checked = IF needed THEN "needed"
                                               ELSE "not_needed",
                                   !.returned = IF SkipsDevice(needed)
                                                THEN "up_to_date" ELSE @]
                    /\ IF ~SkipsDevice(needed)
                       THEN /\ add_events(err \o <<msg>>)
                            /\ w_pc' = "www_start"
                            /\ UNCHANGED <<devices, stats, www_success,
                                           firmware_success>>
                       ELSE /\ devices' = [devices EXCEPT ![Ip] = UP_TO_DATE]
                            /\ add_events(err \o <<msg,
                                   UpdateEvent("UP_TO_DATE", Ip,
                                       "Device already up to date - skipping", 0)>>)
                            /\ stats' = Bump(stats, "completed")
                            /\ www_success' = TRUE
                            /\ firmware_success' = TRUE
                            /\ w_pc' = "w_after"
    /\ UNCHANGED <<inputs, mainthread, is_running, i, current_device,
                   device_progress, detached, upload_type, step, success, started,
                   results>>

\* upload_www / upload_firmware up to the call of upload_with_progress, and
\* upload_with_progress up to its progress loop. fail: where the file access
\* raises ("no": it does not).
StageStart(t, fail) ==
    LET start == UpdateEvent(IF t = "WWW" THEN "WWW_START" ELSE "FW_START", Ip,
                             "Starting upload...", 0)
        errs == <<UpdateEvent("ERROR", Ip, "error", 0),
                  UpdateEvent("ERROR", Ip, "traceback", 0)>>
    IN  /\ upload_type' = t
        /\ devices' = [devices EXCEPT
                          ![Ip] = IF t = "WWW" THEN WWW_UPLOADING ELSE FW_UPLOADING]
        /\ visit' = [visit EXCEPT !.posted = FALSE, !.outcome = "none",
                                  !.cancel_step = 0, !.cancel_pc = "none",
                                  !.fw_started = (t = "FW") \/ @]
        /\ device_progress' =
              IF fail = "stat" THEN device_progress
              ELSE [device_progress EXCEPT ![Ip] = ProgressInfo(t, 0, file_size[t])]
        /\ detached' = IF fail = "stat" THEN detached ELSE Detach(Ip)
        /\ IF fail = "no"
           THEN /\ add_events(<<start, UpdateEvent("PROGRESS", Ip,
                                                   "upload starting...", 0)>>)
                /\ step' = 1
                /\ success' = success
                /\ w_pc' = "up_step"
           ELSE /\ add_events(<<start>> \o errs)
                /\ step' = step
                /\ success' = FALSE
                /\ w_pc' = "up_ret"

U_WwwStart ==
    /\ app = "tui" /\ alive /\ w_pc = "www_start"
    /\ \E fail \in {"no", "stat", "open"} : StageStart("WWW", fail)
    /\ UNCHANGED <<inputs, mainthread, is_running, i, current_device, stats,
                   www_success, firmware_success, inflight, started, results>>

U_FwStart ==
    /\ app = "tui" /\ alive /\ w_pc = "fw_start"
    /\ \E fail \in {"no", "stat", "open"} : StageStart("FW", fail)
    /\ UNCHANGED <<inputs, mainthread, is_running, i, current_device, stats,
                   www_success, firmware_success, inflight, started, results>>

StopsAtCheckpoint_Never(running) == FALSE

\* upload_with_progress: the test at the head of each progress step
StopsAtCheckpoint(running) == ~running

\* upload_with_progress: one iteration of the progress loop
U_Step ==
    /\ app = "tui" /\ alive /\ w_pc = "up_step"
    /\ IF StopsAtCheckpoint(is_running)
       THEN /\ add_events(<<UpdateEvent("ERROR", Ip,
                                        "upload cancelled by user", 0)>>)
            /\ success' = FALSE
            /\ visit' = [visit EXCEPT !.cancel_step = step]
            /\ w_pc' = "up_ret"
            /\ UNCHANGED <<device_progress, detached, step>>
       ELSE LET step_percentage == step * StepPercent
                step_bytes == (file_size[upload_type] * step_percentage) \div 100
            IN  /\ device_progress' =
                      [device_progress EXCEPT ![Ip] = ProgressUpdate(@, step_bytes)]
                /\ add_events(<<UpdateEvent("PROGRESS", Ip,
                                   IF step_percentage < 100 THEN "upload: %"
                                   ELSE "upload: 100% - Finalizing...",
                                   step_percentage)>>)
                /\ IF step < ProgressSteps
                   THEN step' = step + 1 /\ w_pc' = "up_step"
                   ELSE step' = step /\ w_pc' = "up_post"
                /\ success' = success
                /\ visit' = visit
                /\ detached' = detached
    /\ UNCHANGED <<inputs, mainthread, is_running, i, current_device, devices,
                   stats, upload_type, www_success, firmware_success, inflight,
                   started, results>>

\* upload_with_progress: the request is sent
U_Post ==
    /\ app = "tui" /\ alive /\ w_pc = "up_post"
    /\ add_events(<<UpdateEvent("PROGRESS", Ip, "upload: Sending request...", 0)>>)
    /\ Issue(Ip, Endpoint(upload_type), visit)
    /\ w_pc' = "up_wait"
    /\ UNCHANGED <<inputs, mainthread, is_running, i, current_device, devices,
                   device_progress, detached, stats, upload_type, step, success,
                   www_success, firmware_success, started, results>>

ReplyEvents_OneEach(ip, o) ==
    IF o = "200" THEN <<UpdateEvent("SUCCESS", ip, "uploaded successfully", 0)>>
    ELSE <<UpdateEvent("ERROR", ip, "error", 0)>>

\* upload_with_progress: the events put for the outcome o of session.post
ReplyEvents(ip, o) ==
    CASE o = "200" -> <<UpdateEvent("SUCCESS", ip, "uploaded successfully", 0)>>
      [] o = "http_error" -> <<UpdateEvent("ERROR", ip, "upload failed: HTTP", 0)>>
      [] o = "timeout" -> <<UpdateEvent("ERROR", ip, "upload timeout", 0)>>
      [] o = "connection_error" -> <<UpdateEvent("ERROR", ip, "connection error", 0)>>
      [] OTHER -> <<UpdateEvent("ERROR", ip, "error", 0),
                    UpdateEvent("ERROR", ip, "traceback", 0)>>

\* upload_with_progress: the response, or the exception, of session.post
U_Reply ==
    /\ app = "tui" /\ alive /\ w_pc = "up_wait"
    /\ \E o \in PostOutcomes :
        /\ inflight' = {}
        /\ visit' = [visit EXCEPT !.outcome = o]
        /\ success' = UploadSucceeded(o)
        /\ add_events(ReplyEvents(Ip, o))
    /\ w_pc' = "up_ret"
    /\ UNCHANGED <<inputs, mainthread, is_running, i, current_device, devices,
                   device_progress, detached, stats, upload_type, step, www_success,
                   firmware_success, started, results>>

\* upload_www after upload_with_progress, and update_device up to the delay
U_WwwEnd ==
    /\ app = "tui" /\ alive /\ w_pc = "up_ret" /\ upload_type = "WWW"
    /\ devices' = [devices EXCEPT ![Ip] = IF success THEN WWW_SUCCESS ELSE WWW_FAILED]
    /\ stats' = IF success THEN Bump(stats, "www_success") ELSE stats
    /\ www_success' = success
    /\ visit' = [visit EXCEPT !.www_done = TRUE]
    /\ IF SleepsBetweenStages(success, Delay)
       THEN /\ add_events(<<UpdateEvent("DELAY", Ip,
                               "Waiting before firmware upload...", Delay)>>)
            /\ w_pc' = "ud_sleep"
       ELSE /\ UNCHANGED events
            /\ w_pc' = "fw_start"
    /\ UNCHANGED <<inputs, mainthread, is_running, i, current_device,
                   device_progress, detached, upload_type, step, success,
                   firmware_success, inflight, started, results>>

\* update_device: time.sleep(delay) returns
UD_Slept ==
    /\ app = "tui" /\ alive /\ w_pc = "ud_sleep"
    /\ visit' = [visit EXCEPT !.slept = TRUE]
    /\ w_pc' = "fw_start"
    /\ UNCHANGED <<inputs, events, mainthread, is_running, i, current_device,
                   devices, device_progress, detached, stats, upload_type, step, success,
                   www_success, firmware_success, inflight, started, results>>

\* upload_firmware after upload_with_progress
U_FwEnd ==
    /\ app = "tui" /\ alive /\ w_pc = "up_ret" /\ upload_type = "FW"
    /\ devices' = [devices EXCEPT ![Ip] = IF success THEN FW_SUCCESS ELSE FW_FAILED]
    /\ stats' = IF success THEN Bump(stats, "fw_success") ELSE stats
    /\ firmware_success' = success
    /\ visit' = [visit EXCEPT !.fw_done = TRUE]
    /\ w_pc' = "ud_final"
    /\ UNCHANGED <<inputs, events, mainthread, is_running, i, current_device,
                   device_progress, detached, upload_type, step, success, www_success,
                   inflight, started, results>>

FinalCounter_FirmwareCounts(www, fw) == IF fw THEN "completed" ELSE "failed"

\* update_device: the counter raised with the final status
FinalCounter(www, fw) == IF www /\ fw THEN "completed" ELSE "failed"

\* update_device: progress clean-up and the final status
UD_Final ==
    /\ app = "tui" /\ alive /\ w_pc = "ud_final"
    /\ device_progress' = [device_progress EXCEPT ![Ip] = NoProgress]
    /\ detached' = Detach(Ip)
    /\ devices' = [devices EXCEPT ![Ip] = FinalStatus(www_success, firmware_success)]
    /\ add_events(<<IF www_success /\ firmware_success
                    THEN UpdateEvent("DEVICE_SUCCESS", Ip,
                                     "Device updated successfully!", 0)
                    ELSE UpdateEvent("DEVICE_FAILED", Ip, "Device update failed", 0)>>)
    /\ stats' = Bump(stats, FinalCounter(www_success, firmware_success))
    /\ visit' = [visit EXCEPT !.returned = "uploaded"]
    /\ w_pc' = "w_after"
    /\ UNCHANGED <<inputs, mainthread, is_running, i, current_device,
                   upload_type, step, success, www_success, firmware_success,
                   inflight, started, results>>

\* update_worker: after update_device, the delay between devices
W_After ==
    /\ app = "tui" /\ alive /\ w_pc = "w_after"
    /\ IF i < Len(ip_addresses) /\ device_delay > 0 /\ is_running
       THEN /\ add_events(<<UpdateEvent("DELAY", Ip,
                               "Waiting before next device...", device_delay)>>)
            /\ w_pc' = "w_sleep"
       ELSE /\ UNCHANGED events
            /\ w_pc' = "w_loop"
    /\ UNCHANGED <<inputs, mainthread, is_running, i, current_device, devices,
                   device_progress, detached, stats, upload_type, step, success,
                   www_success, firmware_success, inflight, visit, started,
                   results>>

\* update_worker: time.sleep(device_delay) returns
W_Slept ==
    /\ app = "tui" /\ alive /\ w_pc = "w_sleep"
    /\ w_pc' = "w_loop"
    /\ UNCHANGED <<inputs, events, mainthread, is_running, i, current_device,
                   devices, device_progress, detached, stats, upload_type, step, success,
                   www_success, firmware_success, inflight, visit, started,
                   results>>

\* update_worker: after the loop
W_End ==
    /\ app = "tui" /\ alive /\ w_pc = "w_end"
    /\ is_running' = FALSE
    /\ add_events(<<UpdateEvent("COMPLETE", "", "All updates completed!", 0)>>)
    /\ w_pc' = "w_done"
    /\ UNCHANGED <<inputs, mainthread, i, current_device, devices,
                   device_progress, detached, stats, upload_type, step, success,
                   www_success, firmware_success, inflight, visit, started,
                   results>>

\* ------------------------------------------- TUI: main thread
Keys == {"q", "r", "none"}

\* the facts of the visit, with the place of the worker when the flag is
\* cleared during an HTTP call or an upload stage
NoteCancel ==
    IF w_pc \in {"gv_wait", "up_step", "up_post", "up_wait"}
    THEN [visit EXCEPT !.cancel_pc = w_pc]
    ELSE visit

not_visit == <<w_pc, i, current_device, devices, device_progress, detached, stats,
               upload_type, step, success, www_success, firmware_success,
               inflight, started, results>>

\* TUIRenderer.run: the head of the loop. Each view follows the part of the
\* loop body that changes its variables: process_events under "queue",
\* render under "draw".
LoopHead ==
    IF view = "queue" THEN "process"
    ELSE IF view = "draw" THEN "render"
    ELSE "getch"

\* TUIRenderer.run: getch and the key handling of one loop iteration
R_Getch ==
    /\ app = "tui" /\ alive /\ r_pc = "getch"
    /\ \E key \in Keys :
        CASE key = "q" ->
                /\ is_running' = FALSE
                /\ cancelled' = TRUE
                /\ visit' = NoteCancel
                /\ r_pc' = "final"
          [] key = "r" ->
                /\ r_pc' = LoopHead
                /\ UNCHANGED <<is_running, cancelled, visit>>
          [] OTHER ->
                /\ r_pc' = "check"
                /\ UNCHANGED <<is_running, cancelled, visit>>
    /\ UNCHANGED <<inputs, not_visit, events, completion_time, alive, logs, drawn>>

\* TUIRenderer.run: the completion test of one loop iteration
R_Check ==
    /\ app = "tui" /\ alive /\ r_pc = "check"
    /\ IF ~is_running /\ ~ThreadAlive
       THEN IF completion_time = "None"
            THEN completion_time' = "set" /\ r_pc' = LoopHead
            ELSE /\ \E elapsed \in BOOLEAN :
                      r_pc' = IF elapsed THEN "final" ELSE LoopHead
                 /\ UNCHANGED completion_time
       ELSE r_pc' = LoopHead /\ UNCHANGED completion_time
    /\ UNCHANGED <<inputs, worker, events, is_running, alive, cancelled, logs, drawn>>

\* the main thread is inside render
DrawPcs == {"render", "d_member", "d_lookup", "d_type", "d_pct", "d_bytes",
            "d_total", "d_drawn"}

\* TUIRenderer.run: KeyboardInterrupt inside the loop
R_Interrupt ==
    /\ app = "tui" /\ alive
    /\ r_pc \in {"process", "getch", "check"} \cup DrawPcs
    /\ is_running' = FALSE
    /\ cancelled' = TRUE
    /\ visit' = NoteCancel
    /\ r_pc' = "final"
    /\ UNCHANGED <<inputs, not_visit, events, completion_time, alive, logs, drawn>>

QueueGetIndex_Newest(q) == Len(q)

\* the position of the item Queue.get_nowait removes: the oldest
QueueGetIndex(q) == 1

QueueGet(q) == q[QueueGetIndex(q)]

QueueRest(q) ==
    [k \in 1..(Len(q) - 1) |-> IF k < QueueGetIndex(q) THEN q[k] ELSE q[k + 1]]

\* process_events: the log message formatted from an event; the timestamp
\* is represented by the number of the event
FormatLog(item) ==
    [timestamp |-> item.id, device_ip |-> item.event.device_ip,
     message |-> item.event.message, n |-> item.event.n]

TrimLog_KeepsOldest(l) ==
    IF Len(l) > LogLimit THEN SubSeq(l, 1, LogKeep) ELSE l

\* process_events: "self.updater.log_messages[-50:]" once over the limit
TrimLog(l) ==
    IF Len(l) > LogLimit THEN SubSeq(l, Len(l) - LogKeep + 1, Len(l)) ELSE l

\* process_events: one iteration of its loop, get_nowait returns an event
R_ProcessGet ==
    /\ app = "tui" /\ alive /\ r_pc = "process"
    /\ view = "queue" /\ event_queue # <<>>
    /\ event_queue' = QueueRest(event_queue)
    /\ log_messages' = TrimLog(Append(log_messages, FormatLog(QueueGet(event_queue))))
    /\ appended' = Append(appended, QueueGet(event_queue).id)
    /\ UNCHANGED <<inputs, worker, last_event, n_complete, n_after_complete,
                   emitted, is_running, r_pc, completion_time, alive, cancelled,
                   drawn>>

\* process_events: get_nowait raises Empty; then render, which changes no
\* variable under this view
R_ProcessEmpty ==
    /\ app = "tui" /\ alive /\ r_pc = "process"
    /\ view = "queue" /\ event_queue = <<>>
    /\ r_pc' = "getch"
    /\ UNCHANGED <<inputs, worker, events, is_running, completion_time, alive,
                   cancelled, logs, drawn>>

\* TUIRenderer.run before its loop: the device list, stats['total'], and the
\* start of the worker thread
R_Run ==
    /\ app = "tui" /\ alive /\ r_pc = "run"
    /\ devices' = [a \in Addrs |->
                     IF a \in Range(ip_addresses) THEN PENDING ELSE devices[a]]
    /\ stats' = [stats EXCEPT !.total = Len(ip_addresses)]
    /\ w_pc' = "w_start"
    /\ r_pc' = LoopHead
    /\ UNCHANGED <<inputs, events, is_running, completion_time, alive, cancelled,
                   logs, drawn, i, current_device, device_progress, detached,
                   upload_type, step, success, www_success, firmware_success,
                   inflight, visit, started, results>>

\* the address whose row draw_devices draws (the views with one address)
DrawnIp == ip_addresses[1]

\* the ProgressInfo object bound to "progress"
Held ==
    IF device_progress[DrawnIp].upload_type = r_ref THEN device_progress[DrawnIp]
    ELSE detached[r_ref]

\* render up to the loop of draw_devices: draw_header and draw_stats only
\* read; "devices_list = list(self.updater.devices.items())"
R_Render ==
    /\ app = "tui" /\ alive /\ r_pc = "render"
    /\ r_status' = devices[DrawnIp]
    /\ r_ref' = "None"
    /\ r_read' = NoProgress
    /\ r_pc' = "d_member"
    /\ UNCHANGED <<inputs, worker, events, is_running, completion_time, alive,
                   cancelled, logs>>

\* draw_devices returns and render completes: the locals of the frame are
\* gone
EndFrame ==
    /\ r_pc' = "getch"
    /\ r_status' = "None"
    /\ r_ref' = "None"
    /\ r_read' = NoProgress

\* draw_devices: "if ip in self.updater.device_progress and y < self.height - 8"
\* (room: the row of the progress bar is on the screen)
R_DrawMember ==
    /\ app = "tui" /\ alive /\ r_pc = "d_member"
    /\ \E room \in BOOLEAN :
          IF device_progress[DrawnIp] # NoProgress /\ room
          THEN r_pc' = "d_lookup" /\ UNCHANGED drawn
          ELSE EndFrame
    /\ UNCHANGED <<inputs, worker, events, is_running, completion_time, alive,
                   cancelled, logs>>

\* draw_devices: "progress = self.updater.device_progress[ip]", which raises
\* KeyError when the entry is gone, then the test of the status and of the
\* width (bar: available_width > 20)
R_DrawLookup ==
    /\ app = "tui" /\ alive /\ r_pc = "d_lookup"
    /\ IF device_progress[DrawnIp] = NoProgress
       THEN r_pc' = "error" /\ UNCHANGED drawn
       ELSE \E bar \in BOOLEAN :
              IF r_status \in {WWW_UPLOADING, FW_UPLOADING} /\ bar
              THEN /\ r_pc' = "d_type"
                   /\ r_ref' = device_progress[DrawnIp].upload_type
                   /\ UNCHANGED <<r_status, r_read>>
              ELSE EndFrame
    /\ UNCHANGED <<inputs, worker, events, is_running, completion_time, alive,
                   cancelled, logs>>

\* draw_devices: one attribute of "progress" is read; after the percentage,
\* wide tells whether available_width > 50
DrawRead(pc, field, next) ==
    /\ app = "tui" /\ alive /\ r_pc = pc
    /\ \E wide \in BOOLEAN :
          IF pc = "d_pct" /\ ~wide
          THEN EndFrame
          ELSE /\ r_pc' = next
               /\ r_read' = [r_read EXCEPT ![field] = Held[field]]
               /\ UNCHANGED <<r_status, r_ref>>
    /\ UNCHANGED <<inputs, worker, events, is_running, completion_time, alive,
                   cancelled, logs>>

R_DrawType == DrawRead("d_type", "upload_type", "d_pct")

R_DrawPercentage == DrawRead("d_pct", "percentage", "d_bytes")

R_DrawBytesSent == DrawRead("d_bytes", "bytes_sent", "d_total")

R_DrawTotalBytes == DrawRead("d_total", "total_bytes", "d_drawn")

\* draw_devices after bytes_info is formatted, and the rest of render
R_DrawEnd ==
    /\ app = "tui" /\ alive /\ r_pc = "d_drawn"
    /\ EndFrame
    /\ UNCHANGED <<inputs, worker, events, is_running, completion_time, alive,
                   cancelled, logs>>

\* main_tui after tui.run returned or raised, then the interpreter exits:
\* the worker is a daemon thread and stops wherever it is
M_Exit ==
    /\ app = "tui" /\ alive /\ r_pc \in {"final", "error"}
    /\ r_pc' = "exit"
    /\ alive' = FALSE
    /\ UNCHANGED <<inputs, worker, events, is_running, completion_time, cancelled,
                   logs, drawn>>

\* ------------------------------------------- CLI: update_all_devices
tui_state == <<is_running, current_device, devices, device_progress, detached, stats,
               upload_type, step>>

\* update_all_devices: loop head and the call self.update_device(..., force=force).
\* update_device_with_delay(ip, fw_file, www_file) takes no keyword force:
\* the call raises TypeError, which only main catches.
C_Loop ==
    /\ app = "cli" /\ w_pc = "c_loop"
    /\ IF i = Len(ip_addresses)
       THEN /\ w_pc' = "c_done"
            /\ UNCHANGED <<i, started, visit, www_success, firmware_success>>
       ELSE /\ i' = i + 1
            /\ IF patched
               THEN /\ w_pc' = "crashed"
                    /\ UNCHANGED <<started, visit, www_success, firmware_success>>
               ELSE /\ w_pc' = "c_check"
                    /\ started' = Append(started, ip_addresses[i + 1])
                    /\ visit' = NewVisit(ip_addresses[i + 1])
                    /\ www_success' = FALSE
                    /\ firmware_success' = FALSE
    /\ UNCHANGED <<inputs, events, mainthread, tui_state, success, inflight,
                   results>>

\* update_device: the force test, then check_if_update_needed up to the GET
C_Check ==
    /\ app = "cli" /\ w_pc = "c_check"
    /\ IF ~ChecksVersion(force)
       THEN w_pc' = "c_www" /\ UNCHANGED <<inflight, visit>>
       ELSE Issue(Ip, "GET", visit) /\ w_pc' = "c_gv_wait"
    /\ UNCHANGED <<inputs, events, mainthread, tui_state, i, success,
                   www_success, firmware_success, started, results>>

\* get_device_version from the response on, check_if_update_needed, and
\* update_device up to the upload or the return
C_VersionReply ==
    /\ app = "cli" /\ w_pc = "c_gv_wait"
    /\ \E o \in GetOutcomes, v \in DeviceVersions, binary_version \in BinaryVersions :
        /\ inflight' = {}
        /\ IF o = "bad_body"
           THEN /\ w_pc' = "crashed"
                /\ visit' = [visit EXCEPT !.outcome = o]
                /\ UNCHANGED <<www_success, firmware_success>>
           ELSE LET device_info == IF o = "ok" THEN v ELSE NoneV
                    needed == check_if_update_needed(device_info, binary_version)
                IN  /\ visit' = [visit EXCEPT
                                   !.outcome = o,
                                   !.checked = IF needed THEN "needed"
                                               ELSE "not_needed",
                                   !.returned = IF SkipsDevice(needed)
                                                THEN "up_to_date" ELSE @]
                    /\ www_success' = SkipsDevice(needed)
                    /\ firmware_success' = SkipsDevice(needed)
                    /\ w_pc' = IF SkipsDevice(needed) THEN "c_tally" ELSE "c_www"
    /\ UNCHANGED <<inputs, events, mainthread, tui_state, i, success, started,
                   results>>

\* upload_web_interface / upload_firmware up to session.post; the file access
\* may raise, which the method catches
C_Post(t, pc, sent, failed) ==
    /\ app = "cli" /\ w_pc = pc
    /\ \E file_ok \in BOOLEAN :
        IF file_ok
        THEN /\ Issue(Ip, Endpoint(t),
                       [visit EXCEPT !.outcome = "none",
                                     !.fw_started = (t = "FW") \/ @])
             /\ w_pc' = sent
             /\ success' = success
        ELSE /\ visit' = [visit EXCEPT !.posted = FALSE, !.outcome = "none",
                                       !.fw_started = (t = "FW") \/ @]
             /\ success' = FALSE
             /\ w_pc' = failed
             /\ UNCHANGED inflight
    /\ UNCHANGED <<inputs, events, mainthread, tui_state, i, www_success,
                   firmware_success, started, results>>

C_PostWww == C_Post("WWW", "c_www", "c_www_wait", "c_www_ret")

C_PostFw == C_Post("FW", "c_fw", "c_fw_wait", "c_fw_ret")

\* the response, or the exception, of session.post
C_Reply(pc, ret) ==
    /\ app = "cli" /\ w_pc = pc
    /\ \E o \in PostOutcomes :
        /\ inflight' = {}
        /\ visit' = [visit EXCEPT !.outcome = o]
        /\ success' = UploadSucceeded(o)
    /\ w_pc' = ret
    /\ UNCHANGED <<inputs, events, mainthread, tui_state, i, www_success,
                   firmware_success, started, results>>

C_WwwReply == C_Reply("c_www_wait", "c_www_ret")

C_FwReply == C_Reply("c_fw_wait", "c_fw_ret")

\* update_device after upload_web_interface: the delay parameter keeps its
\* default, update_all_devices does not pass it
C_WwwEnd ==
    /\ app = "cli" /\ w_pc = "c_www_ret"
    /\ www_success' = success
    /\ visit' = [visit EXCEPT !.www_done = TRUE]
    /\ w_pc' = IF SleepsBetweenStages(success, Delay) THEN "c_sleep" ELSE "c_fw"
    /\ UNCHANGED <<inputs, events, mainthread, tui_state, i, success,
                   firmware_success, inflight, started, results>>

\* update_device: time.sleep(delay) returns
C_Slept ==
    /\ app = "cli" /\ w_pc = "c_sleep"
    /\ visit' = [visit EXCEPT !.slept = TRUE]
    /\ w_pc' = "c_fw"
    /\ UNCHANGED <<inputs, events, mainthread, tui_state, i, success,
                   www_success, firmware_success, inflight, started, results>>

\* update_device after upload_firmware, up to its return
C_FwEnd ==
    /\ app = "cli" /\ w_pc = "c_fw_ret"
    /\ firmware_success' = success
    /\ visit' = [visit EXCEPT !.fw_done = TRUE, !.returned = "uploaded"]
    /\ w_pc' = "c_tally"
    /\ UNCHANGED <<inputs, events, mainthread, tui_state, i, success,
                   www_success, inflight, started, results>>

IsFailed_EitherStage(firmware_ok, www_ok) == ~firmware_ok \/ ~www_ok

\* update_all_devices: the test that puts an address on results['failed']
IsFailed(firmware_ok, www_ok) == ~firmware_ok /\ ~www_ok

\* update_all_devices: the counters and the delay between devices
C_Tally ==
    /\ app = "cli" /\ w_pc = "c_tally"
    /\ results' =
          [results EXCEPT
             !.firmware_success = IF firmware_success THEN @ + 1 ELSE @,
             !.www_success = IF www_success THEN @ + 1 ELSE @,
             !.both_success = IF firmware_success /\ www_success THEN @ + 1 ELSE @,
             !.failed = IF IsFailed(firmware_success, www_success)
                        THEN Append(@, Ip) ELSE @]
    /\ w_pc' = IF i < Len(ip_addresses) /\ device_delay > 0
               THEN "c_delay" ELSE "c_loop"
    /\ UNCHANGED <<inputs, events, mainthread, tui_state, i, success,
                   www_success, firmware_success, inflight, visit, started>>

\* update_all_devices: time.sleep(device_delay) returns
C_Delayed ==
    /\ app = "cli" /\ w_pc = "c_delay"
    /\ w_pc' = "c_loop"
    /\ UNCHANGED <<inputs, events, mainthread, tui_state, i, success,
                   www_success, firmware_success, inflight, visit, started,
                   results>>

Driver ==
    \/ C_Loop \/ C_Check \/ C_VersionReply \/ C_PostWww \/ C_PostFw
    \/ C_WwwReply \/ C_FwReply \/ C_WwwEnd \/ C_Slept \/ C_FwEnd \/ C_Tally
    \/ C_Delayed

Worker ==
    \/ W_Start \/ W_Loop \/ W_Begin \/ UD_Check \/ GV_Reply \/ U_WwwStart
    \/ U_FwStart \/ U_Step \/ U_Post \/ U_Reply \/ U_WwwEnd \/ UD_Slept
    \/ U_FwEnd \/ UD_Final \/ W_After \/ W_Slept \/ W_End

MainThread == R_Getch \/ R_Check \/ R_Interrupt \/ M_Exit

Next == Worker \/ MainThread \/ Driver

Spec == Init /\ [][Next]_vars

\* ------------------------------------------ the events of one device
\* One device, so that the whole event sequence of a run is kept.
InitEmit ==
    /\ InitWorker
    /\ view = "emit"
    /\ r_pc = "getch"
    /\ ip_addresses = <<FirstAddr>>
    /\ device_delay = 0

\* the worker with one address: no delay between devices
WorkerOne ==
    \/ W_Start \/ W_Loop \/ W_Begin \/ UD_Check \/ GV_Reply \/ U_WwwStart
    \/ U_FwStart \/ U_Step \/ U_Post \/ U_Reply \/ U_WwwEnd \/ UD_Slept
    \/ U_FwEnd \/ UD_Final \/ W_After \/ W_End

NextEmit == WorkerOne \/ R_Getch \/ R_Check \/ R_Interrupt \/ M_Exit

EmitSpec == InitEmit /\ [][NextEmit]_vars

\* ------------------------------------- the worker and process_events
\* The main thread's loop with process_events, up to the end of the loop.
InitEvent ==
    /\ InitWorker
    /\ view = "queue"
    /\ r_pc = "process"
    /\ ip_addresses = <<FirstAddr>>
    /\ device_delay = 0
    /\ upload_delay = DefaultUploadDelay

NextEvent ==
    WorkerOne \/ R_ProcessGet \/ R_ProcessEmpty \/ R_Getch \/ R_Check

EventSpec == InitEvent /\ [][NextEvent]_vars

\* TUIRenderer.run from its first statement, with one address: the worker
\* and, in the main loop, render with the steps of draw_devices
InitRender ==
    /\ app = "tui"
    /\ NoEntry
    /\ patched = FALSE
    /\ InitCommon
    /\ view = "draw"
    /\ ip_addresses = <<FirstAddr>>
    /\ device_delay = 0
    /\ upload_delay = DefaultUploadDelay
    /\ w_pc = "unstarted"
    /\ r_pc = "run"
    /\ devices = [a \in Addrs |-> "ABSENT"]
    /\ stats = InitStats(0)
    /\ results = InitResults(0)
    /\ visit = NoVisit

Draw ==
    \/ R_Render \/ R_DrawMember \/ R_DrawLookup \/ R_DrawType
    \/ R_DrawPercentage \/ R_DrawBytesSent \/ R_DrawTotalBytes \/ R_DrawEnd

NextRender == WorkerOne \/ R_Run \/ Draw \/ R_Getch \/ R_Check \/ M_Exit

RenderSpec == InitRender /\ [][NextRender]_vars

\* ------------------------------------------- main of either program
\* what main finds at the path of a binary file
FileStates == {"ok", "missing", "empty", "unreadable"}

ArgSets ==
    [esp_miner_bin : FileStates, www_bin : FileStates, check_versions : BOOLEAN,
     discover : BOOLEAN]

\* validate_binary_file returns without raising: the file exists and is not
\* empty and, in updtrr.py only, one byte of it can be read
validate_binary_file(program, file) ==
    IF program = "cli" THEN file = "ok" ELSE file \notin {"missing", "empty"}

ChecksOnly_Never(a) == FALSE

\* main of updtrr.py: "if args.check_versions"
ChecksOnly(a) == a.check_versions

\* main of updtrr.py: the status given to sys.exit after the summary
ExitStatus(r) == IF r.both_success = r.total THEN 0 ELSE 1

\* the variables no step of main changes
fixed == <<app, patched, ip_addresses, force, upload_delay, device_delay,
           file_size, view, args, call, retval>>

\* the state of the driver that main leaves alone before the update begins
idle_driver == <<current_device, devices, device_progress, detached, stats,
                 upload_type, step, success, www_success, firmware_success,
                 started>>

\* sys.exit(status), or the return of main (status 0)
MainExit(status) ==
    /\ m_pc' = "exit"
    /\ exit_status' = <<status>>

\* main is entered with the command line parsed. Under app = "tui" the list
\* has one address and main_tui goes on into TUIRenderer.run.
InitMain ==
    /\ app \in {"cli", "tui"}
    /\ patched = (app = "cli")
    /\ InitCommon
    /\ view = "main"
    /\ app = "tui" => ip_addresses = <<FirstAddr>>
    /\ upload_delay = DefaultUploadDelay
    /\ device_delay = 0
    /\ args \in ArgSets
    /\ app = "tui" => (~args.check_versions /\ ~args.discover)
    /\ m_pc = "validate_fw"
    /\ exit_status = NoStatus
    /\ scanned = FALSE
    /\ call = NoCall
    /\ retval = NoReturn
    /\ w_pc = IF app = "tui" THEN "unstarted" ELSE "none"
    /\ r_pc = "none"
    /\ devices = [a \in Addrs |-> "ABSENT"]
    /\ stats = InitStats(0)
    /\ results = InitResults(0)
    /\ visit = NoVisit

\* an exception raised in main before the update: "except Exception" of
\* main (exit 1), or of main_tui (the error screen, then the return)
MainRaises ==
    IF app = "cli"
    THEN MainExit(1) /\ r_pc' = r_pc
    ELSE m_pc' = "exit" /\ exit_status' = exit_status /\ r_pc' = "error"

\* main / main_tui: validate_binary_file(args.esp_miner_bin)
M_ValidateFw ==
    /\ m_pc = "validate_fw"
    /\ IF validate_binary_file(app, args.esp_miner_bin)
       THEN m_pc' = "validate_www" /\ UNCHANGED <<exit_status, r_pc>>
       ELSE MainRaises
    /\ UNCHANGED <<fixed, scanned, worker, events, is_running, completion_time,
                   alive, cancelled, logs, drawn>>

\* main / main_tui: validate_binary_file(args.www_bin)
M_ValidateWww ==
    /\ m_pc = "validate_www"
    /\ IF validate_binary_file(app, args.www_bin)
       THEN m_pc' = "source" /\ UNCHANGED <<exit_status, r_pc>>
       ELSE MainRaises
    /\ UNCHANGED <<fixed, scanned, worker, events, is_running, completion_time,
                   alive, cancelled, logs, drawn>>

\* main of updtrr.py: auto_discover_bitaxes, which scans the network; found
\* tells whether it returns any address
M_Discover ==
    /\ app = "cli" /\ m_pc = "source" /\ args.discover
    /\ scanned' = TRUE
    /\ \E found \in BOOLEAN :
          IF found THEN m_pc' = "mode" /\ UNCHANGED exit_status
          ELSE MainExit(1)
    /\ UNCHANGED <<fixed, worker, events, mainthread, is_running>>

\* main / main_tui: load_ip_addresses; loaded tells whether it returns the
\* list (it raises for a missing file and for a file without addresses).
\* main_tui then enters TUIRenderer.run.
M_Load ==
    /\ m_pc = "source" /\ ~args.discover
    /\ \E loaded \in BOOLEAN :
          IF ~loaded THEN MainRaises
          ELSE /\ m_pc' = IF app = "cli" THEN "mode" ELSE "run"
               /\ r_pc' = IF app = "cli" THEN r_pc ELSE "run"
               /\ UNCHANGED exit_status
    /\ UNCHANGED <<fixed, scanned, worker, events, is_running, completion_time,
                   alive, cancelled, logs, drawn>>

\* main of updtrr.py: the check-only branch, or the entry of
\* update_all_devices with update_device rebound
M_Mode ==
    /\ app = "cli" /\ m_pc = "mode"
    /\ IF ChecksOnly(args)
       THEN /\ m_pc' = "cv_loop"
            /\ UNCHANGED <<w_pc, results>>
       ELSE /\ m_pc' = "update"
            /\ w_pc' = "c_loop"
            /\ results' = InitResults(Len(ip_addresses))
    /\ UNCHANGED <<fixed, scanned, exit_status, events, mainthread, is_running,
                   i, inflight, visit, idle_driver>>

\* main of updtrr.py, check-only: the next address and the GET of
\* check_if_update_needed, or the return after the last address
M_CheckNext ==
    /\ app = "cli" /\ m_pc = "cv_loop"
    /\ IF i = Len(ip_addresses)
       THEN MainExit(0) /\ UNCHANGED <<i, inflight, visit>>
       ELSE /\ i' = i + 1
            /\ Issue(ip_addresses[i + 1], "GET", NewVisit(ip_addresses[i + 1]))
            /\ m_pc' = "cv_wait"
            /\ UNCHANGED exit_status
    /\ UNCHANGED <<fixed, scanned, events, mainthread, is_running, w_pc,
                   results, idle_driver>>

\* main of updtrr.py, check-only: get_device_version from the response on;
\* a body that is no JSON object raises out of it
M_CheckReply ==
    /\ app = "cli" /\ m_pc = "cv_wait"
    /\ inflight' = {}
    /\ \E o \in GetOutcomes :
          /\ visit' = [visit EXCEPT !.outcome = o]
          /\ IF o = "bad_body" THEN MainExit(1)
             ELSE m_pc' = "cv_loop" /\ UNCHANGED exit_status
    /\ UNCHANGED <<fixed, scanned, events, mainthread, is_running, w_pc, i,
                   results, idle_driver>>

\* main of updtrr.py after update_all_devices: the summary and sys.exit, or
\* "except Exception" when update_all_devices raised
M_Summary ==
    /\ app = "cli" /\ m_pc = "update" /\ w_pc \in {"c_done", "crashed"}
    /\ MainExit(IF w_pc = "crashed" THEN 1 ELSE ExitStatus(results))
    /\ UNCHANGED <<fixed, scanned, worker, events, mainthread, is_running>>

\* main of updtrr.py: KeyboardInterrupt inside the try block
M_Interrupt ==
    /\ app = "cli" /\ m_pc \notin {"exit", "none"}
    /\ MainExit(130)
    /\ w_pc' = IF w_pc = "none" THEN w_pc ELSE "interrupted"
    /\ inflight' = {}
    /\ UNCHANGED <<fixed, scanned, events, mainthread, is_running, i, visit,
                   results, idle_driver>>

Main ==
    \/ M_ValidateFw \/ M_ValidateWww \/ M_Discover \/ M_Load \/ M_Mode
    \/ M_CheckNext \/ M_CheckReply \/ M_Summary \/ M_Interrupt

\* updtrr.py: update_all_devices as main calls it ends at its first call of
\* update_device, so of the driver only C_Loop can act
NextMain ==
    Main \/ C_Loop \/ R_Run \/ WorkerOne \/ R_Getch \/ R_Check \/ M_Exit

MainSpec == InitMain /\ [][NextMain]_vars

\* ------------------------------------------- functions taken alone
\* No driver runs: one function is called on arguments drawn by Init.
InitCall ==
    /\ app = "cli"
    /\ patched = FALSE
    /\ InitCommon
    /\ view = "call"
    /\ ip_addresses = <<FirstAddr>>
    /\ force = FALSE
    /\ upload_delay = DefaultUploadDelay
    /\ device_delay = DefaultDeviceDelay
    /\ w_pc = "none"
    /\ r_pc = "none"
    /\ devices = [a \in Addrs |-> "ABSENT"]
    /\ stats = InitStats(0)
    /\ results = InitResults(0)
    /\ visit = NoVisit
    /\ args = NoArgs
    /\ m_pc = "none"
    /\ exit_status = NoStatus
    /\ scanned = FALSE
    /\ retval = NoReturn

\* the function returns (every variable but retval is left alone)
Return(x) ==
    /\ retval = NoReturn
    /\ retval' = <<x>>
    /\ UNCHANGED <<app, patched, ip_addresses, force, upload_delay, device_delay,
                   file_size, view, args, m_pc, exit_status, scanned, call,
                   worker, events, mainthread, is_running>>

\* Python's str() of a non-negative integer
DigitChar == [d \in 0..9 |-> CHOOSE c \in Digits : DigitVal[c] = d]

RECURSIVE str(_)
str(n) == IF n < 10 THEN <<DigitChar[n]>> ELSE str(n \div 10) \o <<DigitChar[n % 10]>>

\* the version components written into the strings tried
Components == {0, 2, 9, 10}

\* the lists of components, up to one more than parse_version keeps
RunLists == UNION {[1..n -> Components] : n \in 0..4}

\* f"{a}.{b}.{c}" for any number of components
RECURSIVE Dotted(_)
Dotted(runs) ==
    IF runs = <<>> THEN <<>>
    ELSE str(Head(runs)) \o
         (IF Tail(runs) = <<>> THEN <<>> ELSE <<".">> \o Dotted(Tail(runs)))

V_garbage == <<"g", "a", "r", "b", "a", "g", "e">>

\* the version strings tried, each with the numbers written into it:
\* dotted numbers, with or without the prefix "v" and surrounding blanks,
\* and words that hold no digit
VersionTexts ==
    {[text |-> pre \o Dotted(runs) \o post, runs |-> runs] :
        runs \in RunLists, pre \in {<<>>, <<"v">>, <<" ", "v">>},
        post \in {<<>>, <<" ">>}}
    \cup {[text |-> w, runs |-> <<>>] : w \in {V_garbage, V_unknown}}

\* the strings compare_versions is tried on: three components, or no digit
CompareTexts ==
    {v \in VersionTexts :
        /\ Len(v.runs) \in {0, 3}
        /\ v.text = lstrip(v.text)
        /\ v.text = rstrip(v.text)}

InitVersion ==
    /\ InitCall
    /\ \/ \E v \in VersionTexts :
            call = [fn |-> "parse_version", version_str |-> v]
       \/ \E c \in CompareTexts, b \in CompareTexts :
            call = [fn |-> "compare_versions", current_version |-> c,
                    binary_version |-> b]

\* compare_versions.parse_version(version_str)
V_Parse ==
    /\ call.fn = "parse_version"
    /\ Return(parse_version(call.version_str.text))

\* compare_versions(current_version, binary_version)
V_Compare ==
    /\ call.fn = "compare_versions"
    /\ Return(compare_versions(call.current_version.text,
                               call.binary_version.text))

NextVersion == V_Parse \/ V_Compare

VersionSpec == InitVersion /\ [][NextVersion]_vars

\* ------------------------------------------- verify_bitaxe_device
bitaxe_indicators ==
    {"version", "asicModel", "boardVersion", "chipTemp", "hashRate", "power"}

known_asics == {"BM1366", "BM1368", "BM1370", "BM1397"}

\* a JSON value of the field asicModel that is not a string (null, a number)
NotAString == "<not a string>"
\* the field is not in the object
Absent == "<absent>"

\* the strings tried as the value of asicModel
ModelStrings == {"BM1366", "bm1368", "Bm1370", "BM1397", "BM1362", "bm9999", ""}

\* str.upper on the strings tried
upper ==
    [m \in ModelStrings |->
        CASE m = "bm1368" -> "BM1368"
          [] m = "Bm1370" -> "BM1370"
          [] m = "bm9999" -> "BM9999"
          [] OTHER -> m]

\* the JSON objects tried as the body: the indicator fields it has, and the
\* value of asicModel
InfoObjects ==
    {[fields |-> f, asicModel |-> m] :
        f \in SUBSET bitaxe_indicators,
        m \in ModelStrings \cup {NotAString, Absent}}

Infos ==
    {o \in InfoObjects : (o.asicModel = Absent) <=> ("asicModel" \notin o.fields)}

\* the results of the GET as verify_bitaxe_device distinguishes them: an
\* exception of session.get or of response.json(), a status other than 200,
\* a body that is JSON null, a JSON object
Responses ==
    {[kind |-> k, info |-> [fields |-> {}, asicModel |-> Absent]] :
        k \in {"request_exception", "not_json", "http_error", "null"}}
    \cup {[kind |-> "object", info |-> o] : o \in Infos}

IsBitaxe_Lenient(found_indicators, asic_model) ==
    IF found_indicators >= MinIndicators - 1
    THEN asic_model \in known_asics \/ found_indicators >= HighConfidence - 2
    ELSE FALSE

\* verify_bitaxe_device: the decision on the number of indicators found and
\* the upper-cased model
IsBitaxe(found_indicators, asic_model) ==
    IF found_indicators >= MinIndicators
    THEN asic_model \in known_asics \/ found_indicators >= HighConfidence
    ELSE FALSE

\* verify_bitaxe_device, given the result of the GET. "field in None" and
\* ".upper()" of a value that is not a string raise inside the try block.
verify_bitaxe_device(response) ==
    IF response.kind \in {"request_exception", "not_json", "http_error", "null"}
    THEN FALSE
    ELSE LET info == response.info
             found_indicators == Cardinality(info.fields \cap bitaxe_indicators)
         IN  IF found_indicators >= MinIndicators /\ info.asicModel = NotAString
             THEN FALSE
             ELSE IsBitaxe(found_indicators,
                           IF info.asicModel \in {Absent, NotAString} THEN ""
                           ELSE upper[info.asicModel])

InitVerify ==
    /\ InitCall
    /\ \E r \in Responses : call = [fn |-> "verify_bitaxe_device", response |-> r]

\* verify_bitaxe_device(ip), from the result of its GET on
D_Verify ==
    /\ call.fn = "verify_bitaxe_device"
    /\ Return(verify_bitaxe_device(call.response))

NextVerify == D_Verify

VerifySpec == InitVerify /\ [][NextVerify]_vars

\* ------------------------------- TUI: process_events over a long run
\* A forced run over MaxDevices devices on which every upload succeeds and
\* the user presses no 'q': the run that puts the most events on the queue.
InitLog ==
    /\ InitWorker
    /\ view = "queue"
    /\ r_pc = "process"
    /\ Len(ip_addresses) = MaxDevices
    /\ force
    /\ device_delay = 0
    /\ upload_delay = 0

\* upload_with_progress: the file is read
L_WwwStart == U_WwwStart /\ w_pc' = "up_step"

L_FwStart == U_FwStart /\ w_pc' = "up_step"

\* upload_with_progress: the device answers 200
L_Reply == U_Reply /\ success'

\* TUIRenderer.run: getch returns 'r' or no key
L_Getch == R_Getch /\ ~cancelled'

WorkerLog ==
    \/ W_Start \/ W_Loop \/ W_Begin \/ UD_Check \/ L_WwwStart \/ L_FwStart
    \/ U_Step \/ U_Post \/ L_Reply \/ U_WwwEnd \/ U_FwEnd \/ UD_Final
    \/ W_After \/ W_End

NextLog == WorkerLog \/ R_ProcessGet \/ R_ProcessEmpty \/ L_Getch \/ R_Check

LogSpec == InitLog /\ [][NextLog]_vars

\* --------------------------------------- TUI: a run without key presses
\* TUIRenderer.run: getch returns no key (nodelay mode)
R_NoKey == R_Getch /\ r_pc' = "check"

NextQuiet == Worker \/ R_NoKey \/ R_Check \/ M_Exit

\* Both threads keep running: every HTTP call of the worker has a timeout and
\* every sleep ends, the main loop sleeps 0.1 s per iteration, and the 5
\* seconds of min_display_time pass after finitely many iterations.
QuietFairness ==
    /\ WF_vars(Worker)
    /\ WF_vars(R_NoKey) /\ WF_vars(R_Check) /\ WF_vars(M_Exit)
    /\ SF_vars(R_Check /\ r_pc' = "final")

QuietSpec == InitTUI /\ [][NextQuiet]_vars /\ QuietFairness

\* ------------------------------------------- scan_for_bitaxes
Hosts == {"10.0.0.1", "10.0.0.2", "10.0.0.3"}

\* nm.all_hosts(): the hosts of a scan result, each once, in its order
HostLists ==
    {l \in UNION {[1..n -> Hosts] : n \in 0..Cardinality(Hosts)} :
        \A j, k \in DOMAIN l : j # k => l[j] # l[k]}

\* what scan_for_bitaxes meets: whether a CIDR is passed and, when none is,
\* whether get_local_network_cidr finds one; whether nmap raises; the hosts
\* of the scan result, those in state 'up', those with tcp port 80 in state
\* 'open', and those for which verify_bitaxe_device returns True
Scans ==
    [cidr : BOOLEAN, detected : BOOLEAN, raises : BOOLEAN, hosts : HostLists,
     up : SUBSET Hosts, open80 : SUBSET Hosts, verified : SUBSET Hosts]

IsPotential_AnyState(scan, host) == host \in scan.open80

\* scan_for_bitaxes: the test that puts a host into potential_bitaxes
IsPotential(scan, host) == host \in scan.up /\ host \in scan.open80

\* scan_for_bitaxes, given what it meets
scan_for_bitaxes(scan) ==
    IF ~scan.cidr /\ ~scan.detected THEN <<>>
    ELSE IF scan.raises THEN <<>>
    ELSE LET potential_bitaxes ==
                 SelectSeq(scan.hosts, LAMBDA h : IsPotential(scan, h))
         IN  SelectSeq(potential_bitaxes, LAMBDA ip : ip \in scan.verified)

InitScan ==
    /\ InitCall
    /\ \E scan \in Scans :
          /\ scan.cidr => scan.detected
          /\ scan.up \cup scan.open80 \cup scan.verified \subseteq Range(scan.hosts)
          /\ call = [fn |-> "scan_for_bitaxes", scan |-> scan]

\* scan_for_bitaxes(network_cidr, timeout)
D_Scan ==
    /\ call.fn = "scan_for_bitaxes"
    /\ Return(scan_for_bitaxes(call.scan))

NextScan == D_Scan

ScanSpec == InitScan /\ [][NextScan]_vars

\* ================================================================ claims
DriverEnded == w_pc \in {"w_done", "c_done", "crashed"}

IsPrefix(s, t) == Len(s) <= Len(t) /\ SubSeq(t, 1, Len(s)) = s

FinalStatuses == {UP_TO_DATE, COMPLETED, FAILED}

\* the device updates begun so far follow the list, and the only HTTP call in
\* flight belongs to the device begun last
OrderAndNoOverlap ==
    /\ IsPrefix(started, ip_addresses)
    /\ Cardinality(inflight) <= 1
    /\ \A c \in inflight :
          /\ started # <<>>
          /\ c.visit = Len(started)
          /\ c.ip = started[Len(started)]

\* C1: a run that is not cancelled starts exactly N device updates, one per
\* list entry and in list order, and the HTTP calls of one device's update
\* have finished before the first call of the next device is issued.
C1_StartsEveryDeviceInOrder ==
    /\ OrderAndNoOverlap
    /\ (DriverEnded /\ ~cancelled) => started = ip_addresses

\* C2: in the TUI driver a device whose uploads were attempted ends COMPLETED
\* if and only if both uploads succeeded and FAILED otherwise, and that status
\* is written only after the firmware upload attempt has concluded.
C2_FinalStatus ==
    (app = "tui" /\ visit.ip # "") =>
        /\ visit.returned = "uploaded" =>
              /\ devices[visit.ip] \in {COMPLETED, FAILED}
              /\ devices[visit.ip] = COMPLETED <=> (www_success /\ firmware_success)
        /\ devices[visit.ip] \in {COMPLETED, FAILED} =>
              /\ visit.www_done /\ visit.fw_done
              /\ visit.returned = "uploaded"

C2_Witness ==
    /\ app = "tui"
    /\ visit.returned = "uploaded"
    /\ www_success /\ ~firmware_success
    /\ devices[visit.ip] = FAILED

PostsInOrder(calls) ==
    \A j, k \in 1..Len(calls) :
        (calls[j] = "OTA" /\ calls[k] = "OTAWWW") => k < j

\* C3: for a device that is not skipped, the WWW upload is attempted before
\* the firmware upload, the inter-stage delay is slept if and only if the WWW
\* upload succeeded and the delay is positive, and the firmware upload is
\* attempted whatever the WWW upload returned.
C3_StageOrder ==
    /\ visit.fw_started => visit.www_done
    /\ PostsInOrder(visit.calls)
    /\ visit.slept => (visit.www_done /\ www_success /\ Delay > 0)
    /\ visit.fw_started => (visit.slept <=> (www_success /\ Delay > 0))
    /\ (visit.www_done /\ ~visit.fw_started) =>
          w_pc \in {"ud_sleep", "fw_start", "c_sleep", "c_fw"}
    /\ visit.returned = "uploaded" => (visit.fw_started /\ visit.fw_done)
    /\ visit.returned = "up_to_date" => (~visit.www_done /\ ~visit.fw_started)

C3_Witness ==
    /\ visit.fw_done
    /\ ~www_success
    /\ ~visit.slept
    /\ Delay > 0
    /\ \E k \in 1..Len(visit.calls) : visit.calls[k] = "OTA"

\* C4: with force disabled, a device whose version check reports that no
\* update is needed ends UP_TO_DATE and receives no POST during that visit.
C4_UpToDateSkipsUploads ==
    visit.checked = "not_needed" =>
        /\ ~force
        /\ visit.returned = "up_to_date"
        /\ app = "tui" => devices[visit.ip] = UP_TO_DATE
        /\ \A k \in 1..Len(visit.calls) : visit.calls[k] = "GET"
        /\ \A c \in inflight : c.endpoint = "GET"
        /\ ~visit.www_done /\ ~visit.fw_started /\ ~visit.posted
        /\ w_pc \in {"w_after", "w_sleep", "w_loop", "w_begin", "w_end", "w_done",
                     "c_tally", "c_delay", "c_loop", "c_done", "crashed"}

C4_Witness ==
    /\ app = "tui"
    /\ visit.checked = "not_needed"
    /\ devices[visit.ip] = UP_TO_DATE
    /\ w_pc = "w_done"

C5_Inv ==
    force =>
        /\ \A a \in Addrs : devices[a] \notin {CHECKING_VERSION, UP_TO_DATE}
        /\ \A k \in 1..Len(visit.calls) : visit.calls[k] # "GET"
        /\ \A c \in inflight : c.endpoint # "GET"
        /\ visit.checked = "no"
        /\ w_pc \in {"w_after", "c_tally"} => (visit.www_done /\ visit.fw_done)

C5_Step ==
    force =>
        \A a \in Addrs :
            (devices[a] = PENDING /\ devices'[a] # PENDING) =>
                devices'[a] = WWW_UPLOADING

\* C5: with force enabled a device never enters CHECKING_VERSION or
\* UP_TO_DATE, no status query is issued for it, its status goes from PENDING
\* directly to WWW_UPLOADING, and both upload stages are attempted.
C5_ForceSkipsVersionCheck == []C5_Inv /\ [][C5_Step]_vars

C5_Witness ==
    /\ app = "tui"
    /\ force
    /\ w_pc = "w_after"
    /\ visit.fw_done
    /\ devices[visit.ip] = COMPLETED

\* C6: once the renderer has cleared is_running, update_device is begun for
\* no further address, whatever the interleaving and wherever the worker is.
C6_NoStartAfterCancel == [][cancelled => started' = started]_vars

C8_Inv == (app = "tui" /\ inflight # {}) => w_pc \in {"gv_wait", "up_wait"}

C8_Step ==
    (inflight # {} /\ inflight' # inflight) =>
        (alive /\ inflight' = {} /\ visit'.outcome # "none")

C9_CompleteExactlyOnce ==
    (app = "tui" /\ ~ThreadAlive) =>
        /\ n_complete = 1
        /\ n_after_complete = 0
        /\ last_event.event_type = "COMPLETE"

\* C10: an error met while talking to a device does not stop the run: the
\* worker does not die of it, and a run that ends uncancelled has been through
\* every address and left each with a final status.
C10_ErrorsAreIsolated ==
    app = "tui" =>
        /\ w_pc # "crashed"
        /\ (~ThreadAlive /\ ~cancelled) =>
              /\ started = ip_addresses
              /\ \A a \in Range(ip_addresses) : devices[a] \in FinalStatuses

\* C11: in the CLI flow of main (update_device rebound to
\* update_device_with_delay), no error aborts the run: update_all_devices
\* is not left by an exception, and it returns having visited every listed
\* device.
C11_CliRunIsNeverAborted ==
    (app = "cli" /\ patched) =>
        /\ w_pc # "crashed"
        /\ w_pc = "c_done" => started = ip_addresses

StartType(t) == IF t = "WWW" THEN "WWW_START" ELSE "FW_START"

\* the positions in the emitted sequence of the start events of stage t
StartIdx(t) == {k \in 1..Len(emitted) : emitted[k].event_type = StartType(t)}

\* the events of one attempt of stage t after its start event: the longest run
\* of PROGRESS, SUCCESS and ERROR events that follows it
StageTail(t) ==
    LET s == CHOOSE k \in StartIdx(t) : TRUE
        inStage(k) == emitted[k].event_type \in {"PROGRESS", "SUCCESS", "ERROR"}
        e == CHOOSE k \in s..Len(emitted) :
                /\ \A j \in (s + 1)..k : inStage(j)
                /\ k = Len(emitted) \/ ~inStage(k + 1)
    IN  SubSeq(emitted, s + 1, e)

\* upload_with_progress has returned for the attempt of stage t
AttemptOver(t) ==
    \/ t = "WWW" /\ visit.fw_started
    \/ upload_type = t /\ w_pc \notin {"up_step", "up_post", "up_wait"}

\* tail is some PROGRESS events followed by exactly nterm terminating events
TailShape(tail, nterm) ==
    /\ Len(tail) >= nterm
    /\ \A k \in 1..Len(tail) :
          IF k <= Len(tail) - nterm
          THEN tail[k].event_type = "PROGRESS"
          ELSE tail[k].event_type \in {"SUCCESS", "ERROR"}

\* C12 as stated: each upload stage attempt emits exactly one start event,
\* then PROGRESS events only, then exactly one terminating event (SUCCESS or
\* ERROR), whatever the outcome of the attempt.
C12_OneTerminatingEvent ==
    view = "emit" =>
        \A t \in UploadTypes :
            /\ Cardinality(StartIdx(t)) <= 1
            /\ StartIdx(t) # {} =>
                  TailShape(StageTail(t), IF AttemptOver(t) THEN 1 ELSE 0)

\* the attempt in progress or last made ended by an exception that is neither
\* a Timeout nor a ConnectionError: raised by session.post or by the file access
Unclassified ==
    \/ visit.outcome = "other"
    \/ ~visit.posted /\ visit.cancel_step = 0

\* C12 amended: each upload stage attempt emits exactly one start event, then
\* PROGRESS events only, then one terminating event (SUCCESS or ERROR), except
\* that an attempt ended by an unclassified exception emits two ERROR events
\* (the error and its traceback).
C12_StageEvents ==
    view = "emit" =>
        \A t \in UploadTypes :
            /\ Cardinality(StartIdx(t)) <= 1
            /\ StartIdx(t) # {} =>
                  LET tail == StageTail(t)
                  IN  IF ~AttemptOver(t) THEN TailShape(tail, 0)
                      ELSE /\ TailShape(tail, 1) \/ TailShape(tail, 2)
                           /\ TailShape(tail, 2) =>
                                 tail[Len(tail) - 1].event_type = "ERROR"
                                    /\ tail[Len(tail)].event_type = "ERROR"
                           /\ (upload_type = t /\ w_pc = "up_ret") =>
                                 (TailShape(tail, 2) <=> Unclassified)
                           /\ (upload_type = t /\ w_pc = "up_ret" /\ success) =>
                                 tail[Len(tail)].event_type = "SUCCESS"

C12_Witness ==
    /\ view = "emit"
    /\ w_pc = "up_ret"
    /\ upload_type = "FW"
    /\ visit.outcome = "other"
    /\ Len(StageTail("FW")) = ProgressSteps + 4

\* the positions in the emitted sequence of the events of type ty
Positions(ty) == {k \in 1..Len(emitted) : emitted[k].event_type = ty}

StrictlyIncreasing(ids) == \A k \in 1..(Len(ids) - 1) : ids[k] < ids[k + 1]

\* C13: the events appended to log_messages, in the order they were
\* appended, are an order-preserving subsequence of the emitted sequence with
\* no event appended twice; no event that was appended is still in the queue;
\* and the events of the device were emitted in the order of its stages.
C13_EventsInOrder ==
    view = "queue" =>
        /\ \A k \in 1..Len(appended) : appended[k] \in 1..Len(emitted)
        /\ StrictlyIncreasing(appended)
        /\ StrictlyIncreasing([k \in 1..Len(event_queue) |-> event_queue[k].id])
        /\ \A k \in 1..Len(event_queue) :
              /\ event_queue[k].id \in 1..Len(emitted)
              /\ event_queue[k].event = emitted[event_queue[k].id]
        /\ (appended # <<>> /\ event_queue # <<>>) =>
              appended[Len(appended)] < event_queue[1].id
        /\ Len(log_messages) <= Len(appended)
        /\ \A k \in 1..Len(log_messages) :
              LET id == appended[Len(appended) - Len(log_messages) + k]
              IN  log_messages[k] = FormatLog([id |-> id, event |-> emitted[id]])
        /\ \A d \in Positions("DEVICE_START"), w \in Positions("WWW_START") : d < w
        /\ \A w \in Positions("WWW_START"), f \in Positions("FW_START") : w < f
        /\ \A f \in Positions("FW_START"),
              e \in Positions("DEVICE_SUCCESS") \cup Positions("DEVICE_FAILED") : f < e

C13_Witness ==
    /\ view = "queue"
    /\ w_pc = "w_done"
    /\ Positions("DEVICE_SUCCESS") # {}
    /\ Len(appended) >= ProgressSteps
    /\ Len(event_queue) >= 2
    /\ r_pc = "process"

\* the statistics counters raised by the visit in progress or last made
RaisedBy(v) == {c \in DOMAIN stats : stats[c] > v.stats0[c]}

\* the visit has returned with a failed WWW upload and a successful firmware
\* upload
WwwFailedFwSucceeded ==
    /\ app = "tui"
    /\ visit.returned = "uploaded"
    /\ ~www_success /\ firmware_success

\* C14 as stated: a device whose WWW upload fails and whose firmware upload
\* succeeds ends FAILED, and of the statistics counters that visit raises the
\* firmware-success counter only.
C14_OnlyFirmwareCounter ==
    WwwFailedFwSucceeded =>
        /\ devices[visit.ip] = FAILED
        /\ RaisedBy(visit) = {"fw_success"}

\* C14 amended: a device whose WWW upload fails and whose firmware upload
\* succeeds ends FAILED, and that visit raises the firmware-success counter
\* and the failed counter, each by one, and no other: the completed counter
\* and the WWW-success counter keep their values.
C14_FailedAndFirmwareCounters ==
    WwwFailedFwSucceeded =>
        /\ devices[visit.ip] = FAILED
        /\ stats = [visit.stats0 EXCEPT !.fw_success = @ + 1, !.failed = @ + 1]

C14_Witness ==
    /\ WwwFailedFwSucceeded
    /\ w_pc = "w_after"
    /\ stats.failed = 1
    /\ stats.fw_success = 1
    /\ stats.completed = 0

UnableMessages ==
    {"Unable to get device version - proceeding with update",
     "Unable to extract binary version - proceeding with update"}

\* the version check of the visit reported that a version could not be had
CheckWasUnable ==
    \E k \in Positions("VERSION_CHECK") : emitted[k].message \in UnableMessages

\* C15: check_if_update_needed answers "update needed" whenever the status
\* query gave no device information or no version could be extracted from
\* the binary, whatever the other input is; with force off such a device goes
\* on to the upload stages and never becomes UP_TO_DATE.
C15_FailOpen ==
    /\ \A b \in BinaryVersions : check_if_update_needed(NoneV, b)
    /\ \A v \in DeviceVersions : check_if_update_needed(v, NoneV)
    /\ (view = "emit" /\ \E k \in Positions("ERROR") :
                             emitted[k].message = "Failed to get version info") =>
          CheckWasUnable
    /\ (view = "emit" /\ CheckWasUnable) =>
          /\ ~force
          /\ visit.checked = "needed"
          /\ visit.returned # "up_to_date"
          /\ devices[visit.ip] # UP_TO_DATE
          /\ Positions("UP_TO_DATE") = {}
          /\ w_pc = "www_start" \/ Positions("WWW_START") # {}

C15_Witness ==
    /\ view = "emit"
    /\ \E k \in Positions("VERSION_CHECK") :
          emitted[k].message = "Unable to extract binary version - proceeding with update"
    /\ visit.fw_done
    /\ devices[visit.ip] = COMPLETED

Counters == {"completed", "www_success", "fw_success", "failed"}

C19_Inv ==
    app = "tui" =>
        \A c \in Counters :
            /\ stats[c] >= visit.stats0[c]
            /\ stats[c] <= visit.stats0[c] + 1

C19_Step == \A c \in Counters : stats'[c] >= stats[c]

\* C19: no statistics counter (completed, www_success, fw_success, failed)
\* ever decreases during a run, and one device visit raises each of them by
\* at most 1.
C19_CountersMonotone == []C19_Inv /\ [][C19_Step]_vars

C19_Witness ==
    /\ app = "tui"
    /\ i = 2
    /\ w_pc = "w_after"
    /\ stats.completed = 1
    /\ stats.failed = 1
    /\ stats.www_success = 2
    /\ stats.fw_success = 1

OnePostPerEndpoint(calls) ==
    \A e \in {"OTAWWW", "OTA"} :
        Cardinality({k \in 1..Len(calls) : calls[k] = e}) <= 1

\* C20: within one device visit each upload stage issues at most one POST: a
\* failed WWW or firmware upload is not retried, so a visit issues at most
\* two POSTs, at most one per upload endpoint.
C20_OneShotUploads ==
    /\ OnePostPerEndpoint(visit.calls)
    /\ Cardinality({k \in 1..Len(visit.calls) : visit.calls[k] # "GET"}) <= 2
    /\ \A c \in inflight :
          c.endpoint = visit.calls[Len(visit.calls)]

C20_Witness ==
    /\ visit.returned = "uploaded"
    /\ ~www_success /\ ~firmware_success
    /\ visit.outcome = "timeout"
    /\ Cardinality({k \in 1..Len(visit.calls) : visit.calls[k] # "GET"}) = 2

\* C16: for every interleaving of the renderer and the worker, draw_devices
\* completes without error: the lookup of the progress entry that follows
\* the membership test never raises.
C16_DrawDevicesCompletes ==
    view = "draw" => r_pc # "error"

\* C17: when the renderer has read the attributes of a ProgressInfo, the
\* percentage it read is (bytes_sent * 100) div total_bytes for the
\* bytes_sent and total_bytes it read (0 when total_bytes is 0).
C17_NoTornRead ==
    (view = "draw" /\ r_pc = "d_drawn") =>
        r_read.percentage =
            IF r_read.total_bytes = 0 THEN 0
            ELSE (r_read.bytes_sent * 100) \div r_read.total_bytes

\* the state owned by the worker: status map, progress map, statistics
DriverOwned == <<devices, device_progress, stats>>

\* C18: every step that writes the status map, the progress map or the
\* statistics is a step of the worker thread: the main thread, which runs
\* the renderer, is where it was and its locals and log are unchanged.
C18_OnlyWorkerWrites ==
    [][DriverOwned' # DriverOwned => mainthread' = mainthread]_vars

\* Once TUIRenderer.run has started the worker thread, every step that
\* writes the status map, the progress map or the statistics is a step of
\* the worker.
OnlyWorkerWritesOnceStarted ==
    [][(DriverOwned' # DriverOwned /\ r_pc # "run") =>
            mainthread' = mainthread]_vars

\* ------------------------------------------------------ C24, C25, C26
\* the place of a triple in the order of versions, for components below 100
Weight(runs) == runs[1] * 10000 + runs[2] * 100 + runs[3]

Returned(fn) == call.fn = fn /\ retval # NoReturn

\* C24: compare_versions(current, binary) is true exactly when the triple
\* written in binary is greater than the triple written in current, the
\* components compared as numbers; it is false for equal strings, and never
\* true in both directions.
C24_StrictlyNewer ==
    (view = "call" /\ Returned("compare_versions")) =>
        LET c == call.current_version
            b == call.binary_version
        IN  /\ (Len(c.runs) = 3 /\ Len(b.runs) = 3) =>
                    (retval[1] <=> (Weight(b.runs) > Weight(c.runs)))
            /\ (c.text = b.text) => ~retval[1]
            /\ retval[1] => ~compare_versions(b.text, c.text)

C24_Witness ==
    /\ Returned("compare_versions")
    /\ call.current_version.text = V_2_9_0
    /\ call.binary_version.text = <<"2", ".", "1", "0", ".", "0">>
    /\ retval[1]

\* C25: parse_version gives (a, b, c) for "v{a}.{b}.{c}" and for
\* "{a}.{b}.{c}", and compare_versions is false, in both argument
\* positions, for two strings that write the same triple with and without
\* the prefix.
C25_PrefixIgnored ==
    /\ (view = "call" /\ Returned("parse_version")) =>
        LET v == call.version_str
        IN  (Len(v.runs) = 3 /\ v.text \in {Dotted(v.runs), <<"v">> \o Dotted(v.runs)})
                => retval[1] = v.runs
    /\ (view = "call" /\ Returned("compare_versions")) =>
        LET c == call.current_version
            b == call.binary_version
        IN  (Len(c.runs) = 3 /\ c.runs = b.runs) => ~retval[1]

C25_Witness ==
    /\ Returned("parse_version")
    /\ call.version_str.text = V_v2_10_0
    /\ retval[1] = <<2, 10, 0>>

\* the component at place k of the numbers written, 0 when there is none
Component(runs, k) == IF k <= Len(runs) THEN runs[k] ELSE 0

\* C26: parse_version returns a triple for every string: the first three
\* numbers written in it, 0 for each one missing, (0, 0, 0) when the string
\* holds no digit, the numbers after the third ignored; compare_versions of
\* two strings without digits is false.
C26_ParseIsTotal ==
    /\ (view = "call" /\ Returned("parse_version")) =>
        LET runs == call.version_str.runs
        IN  retval[1] = <<Component(runs, 1), Component(runs, 2), Component(runs, 3)>>
    /\ (view = "call" /\ Returned("compare_versions")) =>
        ((call.current_version.runs = <<>> /\ call.binary_version.runs = <<>>)
            => ~retval[1])

C26_Witness ==
    \/ /\ Returned("parse_version")
       /\ call.version_str.text = V_garbage
       /\ retval[1] = <<0, 0, 0>>
    \/ /\ Returned("compare_versions")
       /\ call.current_version.text = V_unknown
       /\ call.binary_version.text = V_garbage
       /\ ~retval[1]

\* ------------------------------------------------------ C27 .. C30
Verified == call.fn = "verify_bitaxe_device" /\ retval # NoReturn

\* the body is a JSON object received with status 200
IsObject == call.response.kind = "object"

Found == Cardinality(call.response.info.fields \cap bitaxe_indicators)

\* the value of asicModel is a string that, upper-cased, is a known model
Whitelisted ==
    /\ call.response.info.asicModel \in ModelStrings
    /\ upper[call.response.info.asicModel] \in known_asics

\* C27: verify_bitaxe_device returns true whenever the upper-cased asicModel
\* of the response is a whitelisted model, whatever the number of indicator
\* fields the response has.
C27_WhitelistedModelVerifies ==
    (view = "call" /\ Verified /\ IsObject /\ Whitelisted) => retval[1]

\* C28: verify_bitaxe_device returns true for a 200 response with exactly 3
\* indicator fields and a model that is not whitelisted.
C28_ThreeIndicatorsVerify ==
    (view = "call" /\ Verified /\ IsObject /\ Found = 3 /\ ~Whitelisted)
        => retval[1]

\* C29: verify_bitaxe_device returns true for every 200 response with 4 or
\* more indicator fields, whatever their values.
C29_FourIndicatorsVerify ==
    (view = "call" /\ Verified /\ IsObject /\ Found >= 4) => retval[1]

\* C30: verify_bitaxe_device returns (it never raises), and it returns false
\* for every failed query and for every response with fewer than 3 indicator
\* fields and no whitelisted model.
C30_RejectsBelowThreshold ==
    (view = "call" /\ Verified) =>
        /\ retval[1] \in BOOLEAN
        /\ ~IsObject => ~retval[1]
        /\ (IsObject /\ Found < 3 /\ ~Whitelisted) => ~retval[1]

C30_Witness ==
    /\ Verified
    /\ IsObject
    /\ Found = 2
    /\ ~Whitelisted
    /\ ~retval[1]

\* ------------------------------------------------------ C21, C22, C23
\* main of updtrr.py has exited with the given status
Exited(status) ==
    view = "main" /\ app = "cli" /\ m_pc = "exit" /\ exit_status = <<status>>

\* main of updtrr.py went into update_all_devices
UpdateMode == ~args.check_versions /\ w_pc # "none"

OnlyStatusQueries ==
    /\ \A r \in inflight : r.endpoint = "GET"
    /\ visit.calls \in {<<>>, <<"GET">>}

\* C22: under --check-versions main never enters update_all_devices and the
\* only request made to a device is the one GET of the version check: no
\* POST is issued.
C22_CheckOnlyNeverUploads ==
    (view = "main" /\ app = "cli" /\ args.check_versions) =>
        /\ w_pc = "none"
        /\ started = <<>>
        /\ OnlyStatusQueries

C22_Witness ==
    /\ Exited(0)
    /\ args.check_versions
    /\ Len(ip_addresses) = 2
    /\ i = 2
    /\ visit.calls = <<"GET">>

\* a request was made to a device, or the network scan has begun
NetworkActivity == inflight # {} \/ visit.calls # <<>> \/ scanned

\* both binary files exist, are not empty and can be read
BothFilesValid == args.esp_miner_bin = "ok" /\ args.www_bin = "ok"

\* C23: in both programs no request is made and no scan is started unless
\* both binary files have passed validation (exist, not empty, readable).
C23_ValidatedBeforeNetwork ==
    (view = "main" /\ NetworkActivity) => BothFilesValid

\* In updtrr.py no request is made and no scan is started unless both
\* binary files exist, are not empty and can be read.
CliValidatedBeforeNetwork ==
    (view = "main" /\ app = "cli" /\ NetworkActivity) => BothFilesValid

\* ------------------------------------------------------------ C31
Scanned == view = "call" /\ call.fn = "scan_for_bitaxes" /\ retval # NoReturn

\* the place of a host in a list without repetition
Place(l, h) == CHOOSE k \in DOMAIN l : l[k] = h

\* C31: scan_for_bitaxes returns, without raising, a list that holds exactly
\* the hosts of the scan that are up, have port 80 open and are verified,
\* each once and in the order of the scan; the list is empty when no network
\* is known or the scan fails.
C31_VerifiedHostsInScanOrder ==
    Scanned =>
        LET scan == call.scan
            found == retval[1]
            failed == (~scan.cidr /\ ~scan.detected) \/ scan.raises
        IN  /\ failed => found = <<>>
            /\ ~failed =>
                 /\ Range(found) =
                       {h \in Range(scan.hosts) :
                           h \in scan.up /\ h \in scan.open80 /\ h \in scan.verified}
                 /\ \A j, k \in DOMAIN found :
                       j < k => Place(scan.hosts, found[j]) < Place(scan.hosts, found[k])

C31_Witness ==
    /\ Scanned
    /\ call.scan.hosts = <<"10.0.0.2", "10.0.0.3", "10.0.0.1">>
    /\ call.scan.up = Hosts
    /\ call.scan.open80 = {"10.0.0.1", "10.0.0.2"}
    /\ call.scan.verified = {"10.0.0.1", "10.0.0.2", "10.0.0.3"}
    /\ retval[1] = <<"10.0.0.2", "10.0.0.1">>

\* ------------------------------------------------------------ C32
\* update_all_devices is about to count the pair update_device returned
Tallying == app = "cli" /\ w_pc = "c_tally"

\* s is t with some elements left out
RECURSIVE IsSubsequence(_, _)
IsSubsequence(s, t) ==
    IF s = <<>> THEN TRUE
    ELSE IF t = <<>> THEN FALSE
    ELSE IF Head(s) = Head(t) THEN IsSubsequence(Tail(s), Tail(t))
    ELSE IsSubsequence(s, Tail(t))

\* C32: the failed list of the CLI grows only when a device is counted, by
\* the address of that device at its end, and exactly when both its WWW and
\* its firmware upload failed; a device with one failed stage is put on no
\* list and leaves both_success where it was.
C32_FailedListsBothFailures ==
    [][/\ results'.failed # results.failed => Tallying
       /\ Tallying /\ w_pc' # w_pc =>
            /\ IsSubsequence(results'.failed, started)
            /\ (~www_success /\ ~firmware_success)
                  => results'.failed = Append(results.failed, visit.ip)
            /\ (www_success \/ firmware_success)
                  => results'.failed = results.failed
            /\ (www_success # firmware_success)
                  => /\ results'.both_success = results.both_success
                     /\ results'.both_success + Len(results'.failed)
                            < Len(started)]_vars

C32_Witness ==
    /\ app = "cli" /\ w_pc = "c_done"
    /\ Len(ip_addresses) = 2
    /\ results.failed = <<ip_addresses[2]>>
    /\ results.both_success = 0
    /\ results.www_success = 1
    /\ results.firmware_success = 0

\* ------------------------------------------------------------ C33
\* C33: when update_all_devices counts a device that update_device skipped
\* because no update was needed, the up-to-date count grows by one and the
\* firmware, WWW and both-stage success counts stay where they were.
C33_SkippedCountsAsUpToDate ==
    [][Tallying /\ w_pc' # w_pc /\ visit.returned = "up_to_date" =>
          /\ results'.up_to_date = results.up_to_date + 1
          /\ results'.firmware_success = results.firmware_success
          /\ results'.www_success = results.www_success
          /\ results'.both_success = results.both_success]_vars

\* ------------------------------------------------------------ C34
CancelEvent(ip) == UpdateEvent("ERROR", ip, "upload cancelled by user", 0)

\* a stage of the visit has reported its cancellation (one address)
CancelReported == \E k \in DOMAIN emitted : emitted[k] = CancelEvent(visit.ip)

\* the worker is at a progress checkpoint and takes its next step
AtCheckpoint == app = "tui" /\ w_pc = "up_step" /\ emitted' # emitted

C34_Step ==
    /\ AtCheckpoint /\ ~is_running =>
          /\ emitted' = Append(emitted, CancelEvent(visit.ip))
          /\ w_pc' = "up_ret" /\ ~success'
          /\ visit'.calls = visit.calls /\ inflight' = {}
    /\ CancelReported => visit'.calls = visit.calls

C34_Inv ==
    /\ (w_pc = "up_ret" /\ CancelReported /\ last_event = CancelEvent(visit.ip))
          => (~visit.posted /\ ~success)
    /\ (visit.returned = "uploaded" /\ CancelReported) =>
          /\ devices[visit.ip] = FAILED
          /\ stats.failed = visit.stats0.failed + 1
          /\ stats.completed = visit.stats0.completed

\* C34: a stage that finds the flag cleared at a progress checkpoint, also
\* one begun after the flag was cleared, reports 'cancelled by user', returns
\* failure and sends no POST, nor does a later stage of the device; the device
\* then ends FAILED with the failed counter raised by one.
C34_CancelledStageFails == []C34_Inv /\ [][C34_Step]_vars

C34_Witness ==
    /\ view = "emit"
    /\ visit.returned = "uploaded"
    /\ www_success
    /\ visit.slept
    /\ CancelReported
    /\ devices[visit.ip] = FAILED
    /\ stats.failed = 1

\* ------------------------------------------------------------ C35
\* update_device was called for address a and every such call has returned
Finished(a) ==
    /\ \E k \in DOMAIN started : started[k] = a
    /\ ~(a = visit.ip /\ visit.returned = "no")

NeverStarted(a) == \A k \in DOMAIN started : started[k] # a

\* C35: in every state of the TUI, cancelled runs included, an address for
\* which update_device has returned has status UP_TO_DATE, COMPLETED or
\* FAILED, and an address the worker never started has status PENDING.
C35_ReturnedMeansFinalStatus ==
    app = "tui" =>
        \A k \in DOMAIN ip_addresses :
            LET a == ip_addresses[k]
            IN  /\ Finished(a) => devices[a] \in FinalStatuses
                /\ NeverStarted(a) => devices[a] = PENDING

C35_Witness ==
    /\ app = "tui" /\ cancelled /\ w_pc = "w_done"
    /\ Len(ip_addresses) = 2 /\ ip_addresses[2] # ip_addresses[1]
    /\ started = <<ip_addresses[1]>>
    /\ visit.cancel_step > 0
    /\ devices[ip_addresses[1]] = FAILED
    /\ devices[ip_addresses[2]] = PENDING

\* ------------------------------------------------------------ C36
StatusEdges ==
    {<<PENDING, CHECKING_VERSION>>, <<PENDING, WWW_UPLOADING>>,
     <<CHECKING_VERSION, UP_TO_DATE>>, <<CHECKING_VERSION, WWW_UPLOADING>>,
     <<WWW_UPLOADING, WWW_SUCCESS>>, <<WWW_UPLOADING, WWW_FAILED>>,
     <<WWW_SUCCESS, FW_UPLOADING>>, <<WWW_FAILED, FW_UPLOADING>>,
     <<FW_UPLOADING, FW_SUCCESS>>, <<FW_UPLOADING, FW_FAILED>>,
     <<FW_SUCCESS, COMPLETED>>, <<FW_SUCCESS, FAILED>>, <<FW_FAILED, FAILED>>}

DistinctAddresses ==
    \A j, k \in DOMAIN ip_addresses : j # k => ip_addresses[j] # ip_addresses[k]

InProgress(a) == devices[a] \notin FinalStatuses \cup {PENDING}

C36_Step ==
    (app = "tui" /\ DistinctAddresses) =>
        \A k \in DOMAIN ip_addresses :
            LET a == ip_addresses[k]
            IN  devices'[a] # devices[a] =>
                  /\ <<devices[a], devices'[a]>> \in StatusEdges
                  /\ <<devices[a], devices'[a]>> = <<PENDING, WWW_UPLOADING>>
                        => force

C36_Inv ==
    (app = "tui" /\ DistinctAddresses) =>
        \A j, k \in DOMAIN ip_addresses :
            (InProgress(ip_addresses[j]) /\ InProgress(ip_addresses[k])) => j = k

VisitsFinished ==
    IF started # <<>> /\ visit.returned = "no" THEN Len(started) - 1
    ELSE Len(started)

C37_Step ==
    app = "tui" =>
        ((stats'.completed - stats.completed) + (stats'.failed - stats.failed)
            = IF visit.returned = "no" /\ visit'.returned # "no" THEN 1 ELSE 0)

C37_Inv ==
    app = "tui" =>
        /\ stats.completed + stats.failed = VisitsFinished
        /\ stats.completed + stats.failed <= stats.total
        /\ (w_pc = "w_done" /\ ~cancelled) =>
              stats.completed + stats.failed = stats.total
        /\ visit.returned = "up_to_date" =>
              stats.completed = visit.stats0.completed + 1
        /\ stats.www_success <= Len(started)
        /\ stats.fw_success <= Len(started)

\* C37: in the TUI each visit that finishes raises exactly one of
\* stats.completed and stats.failed by one (a skipped device raises
\* completed), so their sum is the number of visits finished, is at most
\* stats.total and equals it when a run that was not cancelled ends;
\* www_success and fw_success are at most the number of visits started.
C37_CountersAccountForVisits == []C37_Inv /\ [][C37_Step]_vars

C37_Witness ==
    /\ app = "tui" /\ w_pc = "w_done" /\ ~cancelled
    /\ stats.total = 2
    /\ stats.completed = 1 /\ stats.failed = 1
    /\ visit.returned = "up_to_date"
    /\ stats.fw_success = 1 /\ stats.www_success = 0

\* ------------------------------------------------------------ C38
StageOfStatus(status) ==
    IF status = WWW_UPLOADING THEN "WWW"
    ELSE IF status = FW_UPLOADING THEN "FW" ELSE "none"

\* C38: in every state, an address whose status is WWW_UPLOADING or
\* FW_UPLOADING and that has a progress entry has the entry of that stage:
\* its upload_type is WWW, respectively FW, and its total is the size of the
\* file of that stage.
C38_ProgressMatchesStatus ==
    app = "tui" =>
        \A a \in Addrs :
            (StageOfStatus(devices[a]) # "none" /\ device_progress[a] # NoProgress)
               => /\ device_progress[a].upload_type = StageOfStatus(devices[a])
                  /\ device_progress[a].total_bytes
                        = file_size[StageOfStatus(devices[a])]

\* ------------------------------------------------------------ C39
WorkerStopped == ~is_running /\ ~ThreadAlive

\* C39: in a run without key presses the worker eventually stops with
\* is_running false, the completion test of the main loop is true from then
\* on, and the main loop exits.
C39_QuietRunExits == <>[]WorkerStopped /\ <>(r_pc = "exit")

\* a run without key presses in which no response makes get_device_version
\* raise does exit
C39_ExitsUnlessWorkerDies == <>(w_pc = "crashed") \/ C39_QuietRunExits

\* ------------------------------------------------------------ C40
\* the log lines of the events drained so far, in the order of their draining
Drained ==
    [k \in DOMAIN appended |->
        [timestamp |-> appended[k], device_ip |-> emitted[appended[k]].device_ip,
         message |-> emitted[appended[k]].message, n |-> emitted[appended[k]].n]]

IsSuffix(l, d) ==
    /\ Len(l) <= Len(d)
    /\ \A k \in DOMAIN l : l[k] = d[Len(d) - Len(l) + k]

C40_Inv ==
    /\ Len(log_messages) <= LogLimit
    /\ IsSuffix(log_messages, Drained)
    /\ \A k \in DOMAIN appended : appended[k] = k
    /\ Len(appended) <= LogLimit => log_messages = Drained

C40_Step ==
    appended' # appended =>
        \/ log_messages' = Append(log_messages, Drained'[Len(Drained')])
        \/ /\ Len(log_messages) = LogLimit
           /\ Len(log_messages') = LogKeep

\* C40: after process_events has handled an event the log holds at most 100
\* lines and is the most recent part, in emission order and without gaps, of
\* the lines of the events drained so far; a line is only ever dropped from
\* the front, when the 101st is appended, and 50 lines are kept then.
C40_LogIsBoundedSuffix == []C40_Inv /\ [][C40_Step]_vars

C40_Witness ==
    /\ view = "queue"
    /\ Len(appended) = LogLimit + 2
    /\ Len(log_messages) = LogKeep + 1
    /\ log_messages[1].timestamp = LogLimit + 2 - LogKeep

====
